---- MODULE Spec2Model ----
(***************************************************************************)
(* A model of the multi-tree transaction path of nebari's Roots facade     *)
(* (nebari/src/roots.rs): Roots::transaction, the TransactionTree          *)
(* operations, ExecutingTransaction::commit / Drop, the commit thread pool *)
(* and the published-state reads of Tree.                                  *)
(*                                                                         *)
(* The transaction manager (new_transaction / push), the tree state        *)
(* (publish / rollback) and the tree file (modify / get / commit) are not  *)
(* part of the sources at hand; they are modelled from the specification   *)
(* (sections 3, 4.4, 4.6, 4.7).                                            *)
(***************************************************************************)
EXTENDS Integers, Sequences, FiniteSets, TLC

\* ------------------------------------------------------------- bounds
\* The highest transaction id that new_transaction hands out.
MaxTxns == 2
\* The number of modifications made in all transactions together.
MaxOps == 2
\* num_cpus::get() as seen by ThreadPool::commit_trees.
CPU_COUNT == 2

\* ChunkCache::new(capacity, max_chunk_length).
Capacity == 2
MaxChunkLength == 1
\* The longest payload of a chunk, and the number of chunks written.
MaxPayload == 2
MaxChunks == 1
\* The number of values serialized onto one writer.
MaxRecords == 2
\* The number of index entries that are reduced.
MaxEntries == 3
\* The number of StdFiles the file manager opens.
MaxObjects == 2
\* u16::MAX, the largest length u16::try_from accepts.
U16_MAX == 65535

\* The threads of the host process that use the Roots.
Clients == {"c1", "c2"}
\* The names of the trees of the database.
TreeNames == {"x", "y"}
Keys == {"k"}
Values == {"a"}
\* Option::None for a value.
None == "none"
\* The keys in the order of their bytes.
KeyOrder == <<"k">>

\* The tree lists a caller may pass to Roots::transaction.
TreeLists == {<<"x">>, <<"y">>, <<"x", "y">>, <<"y", "x">>}
\* Further trees of the database, which only the callers of the commit pool
\* specification name, and the tree lists these callers pass.
PoolNames == {"z", "w", "v"}
PoolLists == {<<"x", "y">>, <<"z", "w", "v">>}

Range(s) == {s[i] : i \in 1..Len(s)}
Min(a, b) == IF a < b THEN a ELSE b

\* Option<TransactionHandle> = None.
NoHandle == [id |-> 0, tree_names |-> {}]
\* ActiveState of a tree that holds nothing: its key/value content, and the
\* ids of the transactions whose modifications the content includes.
EmptyState == [data |-> [k \in Keys |-> None], txns |-> <<>>]
\* tree.default_state(): the working copy and the published copy.
DefaultState == [active |-> EmptyState, published |-> EmptyState]
\* History: no operation of the transaction has written the key.
Unwritten == "unwritten"
NothingWritten == [tk \in TreeNames \X Keys |-> Unwritten]
\* History of a client that is in no transaction.
NoCurrent == [id |-> 0, wrote |-> {}, written |-> NothingWritten,
              conflicted |-> FALSE, call |-> FALSE]
NoOutcome == [status |-> "none", id |-> 0]

\* Roots::tree_path: the file of a tree in the database directory.
tree_path(name) == <<name, ".nebari">>
TreePaths == {tree_path(name) : name \in TreeNames}

\* The files whose chunks are cached: those of the trees; and the positions
\* of chunks in them.
Paths == TreePaths
Positions == {1, 2}
\* The buffers handed to the cache: one of every length up to one byte more
\* than max_chunk_length.
Buffers == {[i \in 1..n |-> 1] : n \in 0..(MaxChunkLength + 1)}
\* The decoded value handed to replace_with_decoded.
DecodedValues == {<<1>>}
\* The payloads of the chunks written to the files.
Bytes == {1, 2}
Payloads == UNION {[1..n -> Bytes] : n \in 1..MaxPayload}
\* A place of a file where no chunk has been written.
NoChunk == [length |-> 0, crc |-> 0, payload |-> <<>>, written |-> <<>>]
\* Option<CacheEntry> = None.
NoEntry == [kind |-> "None", bytes |-> <<>>, of |-> <<>>]
\* No call has been made to the cache yet.
NoCall == [op |-> "none", key |-> <<>>, buffer |-> <<>>, result |-> NoEntry]

VARIABLES
    next_id,        \* TransactionManager: the next transaction id
    reserved,       \* TransactionManager: tree name -> id of the holder, 0 = free
    log,            \* the entries of the transaction log, in push order (id and
                    \* tree_names; history: the transaction's trees and those
                    \* it modified)
    tree_states,    \* Data.tree_states: name -> State (active, published)
    pc,             \* where each client is
    transaction,    \* ExecutingTransaction.transaction of each client
    trees,          \* ExecutingTransaction.trees of each client
    taken,          \* commit: the trees moved out of self.trees
    results,        \* commit: the states commit_trees has returned so far
    loaded,         \* commit_trees: the thread_count the scale loop loaded
    ops,            \* the modifying calls made so far, in all transactions
    queue,          \* ThreadPool: the ThreadCommit channel
    thread_count,   \* ThreadPool.thread_count
    workers,        \* the spawned transaction_commit_threads, in spawn order:
                    \* the ThreadCommit each has received and not answered yet
    chan,           \* the completion channel of each client's commit
    current,        \* history: the id of the client's transaction, the trees it
                    \* has modified, the value it wrote last for each key,
                    \* whether a compare_and_swap of it met a Conflict, and
                    \* whether it is the transaction of a Tree::compare_and_swap
    outcome,        \* history: how the last transaction of each client ended
    files,          \* the tree files on disk: name -> the headers flushed so far
    wanted,         \* the trees of the Roots::transaction call a client waits in
    cache,          \* ChunkCache.cache: the entries of the LRU, the least
                    \* recently used first
    call,           \* the last call made to the chunk cache, or the last read
                    \* of a chunk through a Pointer, and its result
    chunks,         \* the chunks on disk: ChunkKey -> length, crc and payload as
                    \* they are stored (history: the payload as it was written)
    writer,         \* the Vec<u8> the values are serialized onto
    paged_writer,   \* PagedWriter: the nodes stored in the file, by position
    records,        \* history: the values serialized onto the writer, in order
    reading,        \* the bytes of the writer are being deserialized
    reader,         \* the Buffer of the bytes not deserialized yet
    decoded,        \* the values deserialized so far, in order
    ser_call,       \* the last serialize_to / deserialize_from call and its
                    \* result
    entries,        \* the index entries of a by-sequence tree, in order
    leaves,         \* the entries of each leaf of that tree
    leaf_stats,     \* the BySequenceStats kept for each leaf
    node_stats,     \* the BySequenceStats kept for the node above the leaves
    file_manager,   \* the files on disk and the StdFileManager: its StdFiles and
                    \* its pool open_files
    returned,       \* history: the StdFiles of the handles append has returned
                    \* since the last delete of their path
    stale,          \* history: the StdFiles of the handles append returned
                    \* before a delete that removed the file of their path
    executing,      \* the StdFiles whose mutex an OpenStdFile::execute holds
    state_names,    \* the names that have a state in Data.tree_states
    opened,         \* the names a Tree handle exists for
    fs_call         \* the last call made to the Roots or the file manager

\* The variables of the transaction path.
roots_vars == <<next_id, reserved, log, tree_states, pc, transaction, trees, taken,
                results, loaded, ops, queue, thread_count, workers, chan, current,
                outcome, files, wanted>>

\* The variables of the chunk cache.
chunk_vars == <<cache, call, chunks>>

\* The variables of the serialization.
ser_vars == <<writer, paged_writer, records, reading, reader, decoded, ser_call>>

\* The variables of the reducer.
reduce_vars == <<entries, leaves, leaf_stats, node_stats>>

\* The variables of the file manager and of the trees' files.
fs_vars == <<file_manager, returned, stale, executing, state_names, opened, fs_call>>

\* The variables of the components that stand alone.
lib_vars == <<ser_vars, reduce_vars, fs_vars>>

vars == <<roots_vars, chunk_vars, lib_vars>>

Workers == 1..CPU_COUNT

\* ------------------------------------------------------ the tree file
\* TreeFile::get(key, in_transaction): the active state inside a transaction,
\* the published state otherwise.
TreeFile_get(state, key, in_transaction) ==
    IF in_transaction THEN state.active.data[key] ELSE state.published.data[key]

\* TreeFile::scan over the whole tree: the keys that are present, in key order
\* or in reverse, each with its value.
Reverse(s) == [i \in 1..Len(s) |-> s[Len(s) + 1 - i]]
TreeFile_scan(state, forwards, in_transaction) ==
    LET data == IF in_transaction THEN state.active.data ELSE state.published.data
        Present(k) == data[k] # None
        found == SelectSeq(IF forwards THEN KeyOrder ELSE Reverse(KeyOrder), Present)
    IN [i \in 1..Len(found) |-> <<found[i], data[found[i]]>>]

\* TreeFile::get_multiple and get_range: the keys asked for that are present,
\* in key order, each with its value.
TreeFile_get_multiple(state, keys, in_transaction) ==
    LET Asked(kv) == kv[1] \in keys IN
    SelectSeq(TreeFile_scan(state, TRUE, in_transaction), Asked)

\* Tree::get: a read of the published state.
Tree_get(t, key) == TreeFile_get(tree_states[t], key, FALSE)

\* A TransactionTree::get that reads the published state.
TransactionTree_get_published(t, key) == TreeFile_get(tree_states[t], key, FALSE)

\* TransactionTree::get: a read inside the transaction.
TransactionTree_get(t, key) == TreeFile_get(tree_states[t], key, TRUE)

\* TransactionTree::get_multiple.
TransactionTree_get_multiple(t, keys) ==
    TreeFile_get_multiple(tree_states[t], keys, TRUE)

\* TransactionTree::get_range, the range given as the keys it holds.
TransactionTree_get_range(t, range) ==
    TreeFile_get_multiple(tree_states[t], range, TRUE)

\* TransactionTree::scan of the whole tree with every key read.
TransactionTree_scan(t, forwards) == TreeFile_scan(tree_states[t], forwards, TRUE)

\* TransactionTree::last_key: self.tree.scan(.., false, false, ..) stopped at
\* the first key it meets.
TransactionTree_last_key(t) ==
    LET found == TreeFile_scan(tree_states[t], FALSE, FALSE) IN
    IF found = <<>> THEN None ELSE found[1][1]

\* TransactionTree::last: self.tree.scan(.., false, false, ..) that reads the
\* data of the first key it meets and stops at the second.
TransactionTree_last(t) ==
    LET found == TreeFile_scan(tree_states[t], FALSE, FALSE) IN
    IF found = <<>> THEN <<>> ELSE <<found[1]>>

KeySet(value) == [op |-> "Set", value |-> value]
KeyRemove == [op |-> "Remove", value |-> None]
KeySkip == [op |-> "Skip", value |-> None]

\* TreeFile::modify for one key, on the active state: the KeyOperation the
\* modification decided is applied; Skip and the removal of an absent key
\* change nothing.
TreeFile_modify(active, id, key, kop) ==
    IF kop.op = "Skip" \/ (kop.op = "Remove" /\ active.data[key] = None)
    THEN active
    ELSE [data |-> [active.data EXCEPT ![key] = kop.value],
          txns |-> IF id \in Range(active.txns) THEN active.txns
                   ELSE Append(active.txns, id)]

\* TransactionTree::set: Operation::Set(value).
TransactionTree_set(active, id, key, value) ==
    TreeFile_modify(active, id, key, KeySet(value))

\* TransactionTree::replace: the CompareSwap callback always sets.
TransactionTree_replace(active, id, key, value) ==
    TreeFile_modify(active, id, key, KeySet(value))

\* TransactionTree::remove: the CompareSwap callback always removes.
TransactionTree_remove(active, id, key) ==
    TreeFile_modify(active, id, key, KeyRemove)

\* The callback of TransactionTree::compare_and_swap.
CompareSwapCallback(stored, old, new) ==
    IF stored = old
    THEN (IF new # None THEN KeySet(new) ELSE KeyRemove)
    ELSE KeySkip

\* The result of TransactionTree::compare_and_swap: Ok(()) unless the callback
\* has set it to Conflict(stored value).
CompareSwapResult(stored, old) ==
    IF stored = old THEN [conflict |-> FALSE, existing |-> None]
    ELSE [conflict |-> TRUE, existing |-> stored]

\* TransactionTree::compare_and_swap.
TransactionTree_compare_and_swap(active, id, key, old, new) ==
    TreeFile_modify(active, id, key, CompareSwapCallback(active.data[key], old, new))

\* TreeFile::commit (the flush of a tree): a header that embeds the id of the
\* transaction and roots the working state of the tree is written to the file
\* and fsynced.
TreeFile_commit(file, id, active) == Append(file, [id |-> id, state |-> active])

\* ------------------------------------------------- transaction manager
\* A TransactionHandle whose drop leaves its names reserved.
Release_kept(handle) == reserved

\* Dropping a TransactionHandle (in push, or in Drop): its names are free.
Release(handle) ==
    [t \in DOMAIN reserved |-> IF reserved[t] = handle.id THEN 0 ELSE reserved[t]]

\* Roots::transaction reserving the name of its first tree only.
TransactionNames_first(names) == {names[1]}

\* The names Roots::transaction passes to new_transaction.
TransactionNames(names) == Range(names)

\* ------------------------------------------------------------ rollback
\* ExecutingTransaction::rollback_tree_states: TransactionTree::rollback of
\* every tree still in self.trees: the active state becomes the published.
rollback_tree_states(self_trees, states) ==
    [t \in DOMAIN states |->
        IF t \in Range(self_trees)
        THEN [states[t] EXCEPT !.active = states[t].published]
        ELSE states[t]]

\* Drop for ExecutingTransaction: only when the handle is still there.
Drop_tree_states(handle, self_trees, states) ==
    IF handle.id # 0 THEN rollback_tree_states(self_trees, states) ELSE states

\* The transaction of p is over (commit has returned, or the transaction was
\* dropped): p holds no transaction any more.
Finish(p, status) ==
    /\ outcome' = [outcome EXCEPT ![p] = [status |-> status, id |-> current[p].id]]
    /\ pc' = [pc EXCEPT ![p] = "idle"]
    /\ transaction' = [transaction EXCEPT ![p] = NoHandle]
    /\ trees' = [trees EXCEPT ![p] = <<>>]
    /\ taken' = [taken EXCEPT ![p] = <<>>]
    /\ results' = [results EXCEPT ![p] = <<>>]
    /\ loaded' = [loaded EXCEPT ![p] = 0]
    /\ chan' = [chan EXCEPT ![p] = <<>>]
    /\ current' = [current EXCEPT ![p] = NoCurrent]

\* --------------------------------------------------------- chunk cache
\* ChunkKey { position, file_path }.
ChunkKey(file_path, position) == [position |-> position, file_path |-> file_path]

\* A comparison of ChunkKeys that looks at the position only.
ChunkKey_eq_position(a, b) == a.position = b.position

\* #[derive(Eq, PartialEq)] of ChunkKey: both fields are compared.
ChunkKey_eq(a, b) == a.position = b.position /\ a.file_path = b.file_path

\* CacheEntry::Buffer(buffer) and CacheEntry::Decoded(value); history: the key
\* the entry was made for.
CacheEntry_Buffer(buffer, key) == [kind |-> "Buffer", bytes |-> buffer, of |-> key]
CacheEntry_Decoded(value, key) == [kind |-> "Decoded", bytes |-> value, of |-> key]

\* The place of key in the LRU, 0 when it holds no entry for it.
LruCache_find(c, key) ==
    IF \E i \in 1..Len(c) : ChunkKey_eq(c[i].key, key)
    THEN CHOOSE i \in 1..Len(c) : ChunkKey_eq(c[i].key, key)
    ELSE 0

\* The LRU without the entry at place i.
LruCache_without(c, i) == [j \in 1..(Len(c) - 1) |-> IF j < i THEN c[j] ELSE c[j + 1]]

\* LruCache::put: the entry of a key the cache holds is replaced and becomes
\* the most recently used; for a new key the least recently used entry is
\* evicted when the cache is full.
LruCache_put(c, key, entry) ==
    LET i == LruCache_find(c, key)
        rest == IF i # 0 THEN LruCache_without(c, i)
                ELSE IF Len(c) >= Capacity THEN Tail(c) ELSE c
    IN Append(rest, [key |-> key, entry |-> entry])

\* An assignment that goes through LruCache::put.
LruCache_peek_put(c, key, entry) == LruCache_put(c, key, entry)

\* LruCache::peek_mut and the assignment through it: the entry is replaced
\* where it stands.
LruCache_peek_set(c, key, entry) ==
    LET i == LruCache_find(c, key) IN
    IF i = 0 THEN c ELSE [c EXCEPT ![i].entry = entry]

\* LruCache::get: the entry becomes the most recently used.
LruCache_get(c, key) ==
    LET i == LruCache_find(c, key) IN
    IF i = 0 THEN c ELSE Append(LruCache_without(c, i), c[i])

\* An insert that refuses a buffer of exactly max_chunk_length bytes.
ChunkCache_fits_short(buffer) == Len(buffer) < MaxChunkLength

\* buffer.len() <= self.max_block_length.
ChunkCache_fits(buffer) == Len(buffer) <= MaxChunkLength

\* ChunkCache::insert.
ChunkCache_insert(c, file_path, position, buffer) ==
    IF ChunkCache_fits(buffer)
    THEN LruCache_put(c, ChunkKey(file_path, position),
                      CacheEntry_Buffer(buffer, ChunkKey(file_path, position)))
    ELSE c

\* ChunkCache::replace_with_decoded.
ChunkCache_replace_with_decoded(c, file_path, position, value) ==
    LruCache_peek_set(c, ChunkKey(file_path, position),
                      CacheEntry_Decoded(value, ChunkKey(file_path, position)))

\* ChunkCache::get: the entry it returns.
ChunkCache_get(c, file_path, position) ==
    LET i == LruCache_find(c, ChunkKey(file_path, position)) IN
    IF i = 0 THEN NoEntry ELSE c[i].entry

\* --------------------------------------------------------- chunk store
\* The CRC of the bytes of a chunk: a checksum that, as CRC32 does, differs
\* for two byte strings that differ in one byte or in their last byte being
\* there.
RECURSIVE WeightedSum(_)
WeightedSum(bytes) ==
    IF bytes = <<>> THEN 0
    ELSE Len(bytes) * bytes[Len(bytes)] + WeightedSum(SubSeq(bytes, 1, Len(bytes) - 1))
CRC32(bytes) == (Len(bytes) + WeightedSum(bytes)) % 7

\* write_chunk: length, CRC and payload are stored.
write_chunk(payload) ==
    [length |-> Len(payload), crc |-> CRC32(payload), payload |-> payload,
     written |-> payload]

\* The bytes a read of the chunk gets: `length` bytes from the start of the
\* payload, running into the padding of the page behind it.
ChunkBytes(chunk) ==
    [i \in 1..chunk.length |-> IF i <= Len(chunk.payload) THEN chunk.payload[i] ELSE 0]

\* The chunk is not as it was written.
Corrupted(chunk) ==
    \/ chunk.payload # chunk.written
    \/ chunk.length # Len(chunk.written)
    \/ chunk.crc # CRC32(chunk.written)

\* What a damage of a byte of the payload, of the length or of the CRC leaves
\* of a chunk.
Damages(chunk) ==
    ({[chunk EXCEPT !.payload = [@ EXCEPT ![i] = b]] :
         i \in 1..Len(chunk.payload), b \in Bytes} \ {chunk})
    \cup {[chunk EXCEPT !.length = n] :
              n \in {chunk.length - 1, chunk.length + 1} \ {-1}}
    \cup {[chunk EXCEPT !.crc = c] : c \in (0..6) \ {chunk.crc}}

\* Error::DataIntegrity as the result of a read.
DataIntegrity == [kind |-> "DataIntegrity", bytes |-> <<>>, of |-> <<>>]

\* read_chunk(position, validate_crc, file, vault, cache): the cached entry if
\* there is one; otherwise the chunk is read, its CRC is validated if asked
\* for, and the bytes are inserted into the cache as a Buffer.
read_chunk(c, file_path, position, validate_crc, with_cache) ==
    LET key == ChunkKey(file_path, position)
        bytes == ChunkBytes(chunks[key])
    IN IF with_cache /\ ChunkCache_get(c, file_path, position) # NoEntry
       THEN [cache |-> LruCache_get(c, key),
             result |-> ChunkCache_get(c, file_path, position)]
       ELSE IF validate_crc /\ CRC32(bytes) # chunks[key].crc
            THEN [cache |-> c, result |-> DataIntegrity]
            ELSE [cache |-> IF with_cache
                            THEN ChunkCache_insert(c, file_path, position, bytes)
                            ELSE c,
                  result |-> CacheEntry_Buffer(bytes, key)]

\* BTreeEntry::deserialize_from of the bytes of a node: the node they encode.
BTreeEntry_deserialize_from(bytes) == [node |-> bytes]

\* The entry a Pointer holds or passes to the callback: the node of a Decoded
\* cache entry, or the one deserialized from a Buffer.
LoadedEntry(entry) ==
    [kind |-> "Loaded", bytes |-> BTreeEntry_deserialize_from(entry.bytes).node,
     of |-> entry.of]

\* Pointer::load of OnDisk(position).
Pointer_load(c, file_path, position, validate_crc, with_cache) ==
    LET read == read_chunk(c, file_path, position, validate_crc, with_cache) IN
    IF read.result = DataIntegrity THEN read
    ELSE [cache |-> read.cache, result |-> LoadedEntry(read.result)]

\* A replace_with_decoded that leaves the cache as it is.
ChunkCache_keep_buffer(c, file_path, position, value) == c

\* cache.replace_with_decoded(file_id, *position, Box::new(decoded)) in
\* map_loaded_entry.
ChunkCache_promote(c, file_path, position, value) ==
    ChunkCache_replace_with_decoded(c, file_path, position, value)

\* Pointer::map_loaded_entry of OnDisk(position): read_chunk(*position, false,
\* ..); a Buffer is deserialized, passed to the callback and put into the
\* cache in its decoded form. callbacks: how often the callback was called;
\* deserialized: whether BTreeEntry::deserialize_from ran.
Pointer_map_loaded_entry(c, file_path, position, with_cache) ==
    LET read == read_chunk(c, file_path, position, FALSE, with_cache) IN
    IF read.result = DataIntegrity
    THEN [cache |-> read.cache, result |-> read.result, callbacks |-> 0,
          deserialized |-> FALSE]
    ELSE [cache |-> IF read.result.kind = "Buffer" /\ with_cache
                    THEN ChunkCache_promote(
                             read.cache, file_path, position,
                             BTreeEntry_deserialize_from(read.result.bytes).node)
                    ELSE read.cache,
          result |-> LoadedEntry(read.result),
          callbacks |-> 1,
          deserialized |-> read.result.kind = "Buffer"]

\* ------------------------------------------------------- serialization
\* A Buffer / Vec<u8>: its bytes, written as the runs of equal bytes that make
\* it up, so that a key of 65536 bytes is one run. No run is empty and no two
\* neighbouring runs hold the same byte: equal byte strings are equal values.
Run(byte, count) == [byte |-> byte, count |-> count]
Fill(byte, count) == IF count = 0 THEN <<>> ELSE <<Run(byte, count)>>

\* The lengths of the keys and document ids that are serialized: around the
\* largest length a 2-byte length field holds.
SerLengths == {0, 1, U16_MAX, U16_MAX + 1}
SerKeys == {Fill(1, n) : n \in SerLengths}
DocumentIds == {Fill(2, n) : n \in SerLengths}
\* The BySequenceIndex, BySequenceStats and KeyEntry values that are serialized.
Indexes == {[document_id |-> id, document_size |-> 258, position |-> 3] :
               id \in DocumentIds}
Stats == {[number_of_records |-> n] : n \in {0, 258}}
KeyEntries == {[key |-> key, index |-> index] : key \in SerKeys, index \in Indexes}
\* The nodes a tree file holds before anything is serialized, the node at
\* position p being the p-th.
StoredNodes == <<-1, -2>>

\* Buffer::len / Vec::len.
RECURSIVE BufLen(_)
BufLen(buffer) ==
    IF buffer = <<>> THEN 0 ELSE buffer[1].count + BufLen(Tail(buffer))

\* Vec::extend_from_slice.
extend_from_slice(vec, slice) ==
    IF vec = <<>> THEN slice
    ELSE IF slice = <<>> THEN vec
    ELSE IF vec[Len(vec)].byte = slice[1].byte
    THEN SubSeq(vec, 1, Len(vec) - 1)
            \o <<Run(slice[1].byte, vec[Len(vec)].count + slice[1].count)>>
            \o Tail(slice)
    ELSE vec \o slice

\* The first n bytes of a buffer, and the buffer without them.
RECURSIVE Take(_, _)
Take(buffer, n) ==
    IF n = 0 \/ buffer = <<>> THEN <<>>
    ELSE IF buffer[1].count <= n
    THEN <<buffer[1]>> \o Take(Tail(buffer), n - buffer[1].count)
    ELSE <<Run(buffer[1].byte, n)>>

RECURSIVE Drop(_, _)
Drop(buffer, n) ==
    IF n = 0 \/ buffer = <<>> THEN buffer
    ELSE IF buffer[1].count <= n THEN Drop(Tail(buffer), n - buffer[1].count)
    ELSE <<Run(buffer[1].byte, buffer[1].count - n)>> \o Tail(buffer)

\* byteorder::BigEndian: the n bytes of an unsigned integer, the most
\* significant byte first.
RECURSIVE BigEndian(_, _)
BigEndian(value, n) ==
    IF n = 0 THEN <<>>
    ELSE extend_from_slice(BigEndian(value \div 256, n - 1), Fill(value % 256, 1))

\* The integers the model tells apart: all of 2^24 and more are read as Huge.
Huge == 256 * 256 * 256

\* The unsigned integer whose big-endian bytes are the first n bytes of a
\* buffer that holds at least n bytes.
RECURSIVE FromBigEndian(_, _)
FromBigEndian(buffer, n) ==
    IF n = 0 THEN 0
    ELSE LET high == FromBigEndian(buffer, n - 1)
             low == Drop(buffer, n - 1)[1].byte
         IN IF high >= Huge \div 256 THEN Huge ELSE high * 256 + low

\* write_u16 with the two bytes in little-endian order.
write_u16_le(vec, value) ==
    extend_from_slice(vec, BigEndian((value % 256) * 256 + value \div 256, 2))

\* WriteBytesExt::write_u16 / write_u32 / write_u64::<BigEndian>.
write_u16(vec, value) == extend_from_slice(vec, BigEndian(value, 2))
write_u32(vec, value) == extend_from_slice(vec, BigEndian(value, 4))
write_u64(vec, value) == extend_from_slice(vec, BigEndian(value, 8))

\* The results of the calls: Ok with what the call returns, or Err(error).
Err(error) == [ok |-> FALSE, error |-> error]

\* ReadBytesExt::read_u16 / read_u32 / read_u64::<BigEndian>, n bytes wide:
\* the value and the rest behind it, or the io error of a rest that
\* holds fewer bytes.
read_unsigned(rest, n) ==
    IF BufLen(rest) < n THEN Err("Io")
    ELSE [ok |-> TRUE, value |-> FromBigEndian(rest, n), reader |-> Drop(rest, n)]

\* u16::try_from(len) as a cast that keeps the low 16 bits.
u16_truncate(len) == [ok |-> TRUE, value |-> len % (U16_MAX + 1)]

\* u16::try_from(len).
u16_try_from(len) ==
    IF len <= U16_MAX THEN [ok |-> TRUE, value |-> len] ELSE [ok |-> FALSE, value |-> 0]

\* BySequenceIndex::serialize_to: the vec after the call and the number of
\* bytes it reports, or the error. document_size and position are written
\* before the length of the id is converted.
BySequenceIndex_serialize_to(self, vec) ==
    LET sized == write_u32(vec, self.document_size)
        positioned == write_u64(sized, self.position)
        document_id_length == u16_try_from(BufLen(self.document_id))
    IN IF ~document_id_length.ok THEN Err("IdTooLarge")
       ELSE [ok |-> TRUE,
             writer |-> extend_from_slice(
                            write_u16(positioned, document_id_length.value),
                            self.document_id),
             bytes_written |-> 4 + 8 + 2 + document_id_length.value]

\* BySequenceIndex::deserialize_from: the index and the rest behind it.
BySequenceIndex_deserialize_from(rest) ==
    LET document_size == read_unsigned(rest, 4) IN
    IF ~document_size.ok THEN document_size ELSE
    LET position == read_unsigned(document_size.reader, 8) IN
    IF ~position.ok THEN position ELSE
    LET document_id_length == read_unsigned(position.reader, 2) IN
    IF ~document_id_length.ok THEN document_id_length ELSE
    IF document_id_length.value > BufLen(document_id_length.reader)
    THEN Err("DataIntegrity")
    ELSE [ok |-> TRUE,
          value |-> [document_id |-> Take(document_id_length.reader,
                                          document_id_length.value),
                     document_size |-> document_size.value,
                     position |-> position.value],
          reader |-> Drop(document_id_length.reader, document_id_length.value)]

\* BySequenceStats::serialize_to.
BySequenceStats_serialize_to(self, vec) ==
    [ok |-> TRUE, writer |-> write_u64(vec, self.number_of_records),
     bytes_written |-> 8]

\* BySequenceStats::deserialize_from.
BySequenceStats_deserialize_from(rest) ==
    LET number_of_records == read_unsigned(rest, 8) IN
    IF ~number_of_records.ok THEN number_of_records
    ELSE [ok |-> TRUE, value |-> [number_of_records |-> number_of_records.value],
          reader |-> number_of_records.reader]

\* KeyEntry<BySequenceIndex>::serialize_to.
KeyEntry_serialize_to(self, vec) ==
    LET key_len == u16_try_from(BufLen(self.key)) IN
    IF ~key_len.ok THEN Err("KeyTooLarge") ELSE
    LET keyed == extend_from_slice(write_u16(vec, key_len.value), self.key)
        index == BySequenceIndex_serialize_to(self.index, keyed)
    IN IF ~index.ok THEN index
       ELSE [ok |-> TRUE, writer |-> index.writer,
             bytes_written |-> 2 + key_len.value + index.bytes_written]

\* KeyEntry<BySequenceIndex>::deserialize_from.
KeyEntry_deserialize_from(rest) ==
    LET key_len == read_unsigned(rest, 2) IN
    IF ~key_len.ok THEN key_len ELSE
    IF key_len.value > BufLen(key_len.reader) THEN Err("DataIntegrity") ELSE
    LET value == BySequenceIndex_deserialize_from(Drop(key_len.reader, key_len.value))
    IN IF ~value.ok THEN value
       ELSE [ok |-> TRUE,
             value |-> [key |-> Take(key_len.reader, key_len.value),
                        index |-> value.value],
             reader |-> value.reader]

\* Pointer::OnDisk(position) and Pointer::Loaded { previous_location, entry };
\* previous_location is <<>> for None and <<position>> for Some(position).
OnDisk(position) == [kind |-> "OnDisk", position |-> position]
Loaded(previous_location, entry) ==
    [kind |-> "Loaded", previous_location |-> previous_location, entry |-> entry]

\* A BTreeEntry, as far as Interior::serialize_to looks at it: the node it
\* is, its dirty flag, and whether its own serialization succeeds.
BTreeEntry(node, dirty, serializes) ==
    [node |-> node, dirty |-> dirty, serializes |-> serializes]

\* PagedWriter::write_chunk: the chunk is appended to the file, its position
\* is returned. The paged vec is the sequence of the nodes stored in the
\* file, the node at position p being the p-th.
PagedWriter_write_chunk(paged, node) ==
    [paged_writer |-> Append(paged, node), position |-> Len(paged) + 1]

\* A match that sends every loaded child to the serializing arm.
must_serialize_always(dirty, previous_location) == TRUE

\* match (entry.dirty, previous_location): (true, _) | (_, None) serializes
\* the child.
must_serialize(dirty, previous_location) == dirty \/ previous_location = <<>>

\* Interior<BySequenceIndex, BySequenceStats>::serialize_to: the vec, the
\* paged vec and self after the call, the entry handed to the cache in its
\* decoded form (<<>>: none), and the number of bytes reported, or the error
\* with self and the paged vec as the call leaves them. A child whose
\* serialization or whose write_chunk fails returns the error at once.
Interior_serialize_to(self, vec, paged) ==
    LET swapped == [self EXCEPT !.position = OnDisk(0)]
        pointer == self.position
        serialize == pointer.kind = "Loaded"
                     /\ must_serialize(pointer.entry.dirty, pointer.previous_location)
    IN IF serialize /\ ~pointer.entry.serializes
       THEN [ok |-> FALSE, error |-> "Io", self |-> swapped,
             paged_writer |-> paged, entry |-> <<>>]
       ELSE
    LET chunk == PagedWriter_write_chunk(paged, pointer.entry.node)
        location_on_disk == IF pointer.kind = "OnDisk" THEN pointer.position
                            ELSE IF serialize THEN chunk.position
                            ELSE pointer.previous_location[1]
        after == IF serialize THEN chunk.paged_writer ELSE paged
        located == [self EXCEPT !.position = OnDisk(location_on_disk)]
        entry == IF serialize THEN <<[pointer.entry EXCEPT !.dirty = FALSE]>> ELSE <<>>
        key_len == u16_try_from(BufLen(self.key))
    IN IF ~key_len.ok
       THEN [ok |-> FALSE, error |-> "KeyTooLarge", self |-> located,
             paged_writer |-> after, entry |-> entry]
       ELSE
    LET keyed == extend_from_slice(write_u16(vec, key_len.value), self.key)
        stats == BySequenceStats_serialize_to(self.stats,
                                              write_u64(keyed, location_on_disk))
    IN [ok |-> TRUE, writer |-> stats.writer,
        bytes_written |-> 2 + key_len.value + 8 + stats.bytes_written,
        self |-> located, paged_writer |-> after, entry |-> entry]

\* Interior<BySequenceIndex, BySequenceStats>::deserialize_from.
Interior_deserialize_from(rest) ==
    LET key_len == read_unsigned(rest, 2) IN
    IF ~key_len.ok THEN key_len ELSE
    IF key_len.value > BufLen(key_len.reader) THEN Err("DataIntegrity") ELSE
    LET position == read_unsigned(Drop(key_len.reader, key_len.value), 8) IN
    IF ~position.ok THEN position ELSE
    LET stats == BySequenceStats_deserialize_from(position.reader) IN
    IF ~stats.ok THEN stats
    ELSE [ok |-> TRUE,
          value |-> [key |-> Take(key_len.reader, key_len.value),
                     position |-> OnDisk(position.value),
                     stats |-> stats.value],
          reader |-> stats.reader]

\* The child pointers of the Interior that is serialized as the record-th
\* record: a child on disk, a loaded child that is stored and unchanged, one
\* that is stored and modified, one that was never stored, and one whose
\* serialization fails. A node that is not in the file yet is named by the
\* record of its parent.
Pointers(record) ==
    {OnDisk(2),
     Loaded(<<2>>, BTreeEntry(StoredNodes[2], FALSE, TRUE)),
     Loaded(<<2>>, BTreeEntry(record, TRUE, TRUE)),
     Loaded(<<>>, BTreeEntry(record, FALSE, TRUE)),
     Loaded(<<>>, BTreeEntry(record, TRUE, FALSE))}
Interiors(record) ==
    {[key |-> key, position |-> pointer, stats |-> [number_of_records |-> 258]] :
        key \in SerKeys, pointer \in Pointers(record)}

\* The values a caller serializes as the record-th record, with their types.
SerInputs(record) ==
    {[type |-> "KeyEntry", value |-> v] : v \in KeyEntries}
    \cup {[type |-> "BySequenceIndex", value |-> v] : v \in Indexes}
    \cup {[type |-> "BySequenceStats", value |-> v] : v \in Stats}
    \cup {[type |-> "Interior", value |-> v] : v \in Interiors(record)}

\* BinarySerialization::serialize_to of a value of one of the four types.
serialize_to(input, onto, paged) ==
    IF input.type = "KeyEntry" THEN KeyEntry_serialize_to(input.value, onto)
    ELSE IF input.type = "BySequenceIndex"
    THEN BySequenceIndex_serialize_to(input.value, onto)
    ELSE IF input.type = "BySequenceStats"
    THEN BySequenceStats_serialize_to(input.value, onto)
    ELSE Interior_serialize_to(input.value, onto, paged)

\* BinarySerialization::deserialize_from for one of the four types.
deserialize_from(type, from) ==
    IF type = "KeyEntry" THEN KeyEntry_deserialize_from(from)
    ELSE IF type = "BySequenceIndex" THEN BySequenceIndex_deserialize_from(from)
    ELSE IF type = "BySequenceStats" THEN BySequenceStats_deserialize_from(from)
    ELSE Interior_deserialize_from(from)

\* The node the child pointer of an Interior stands for.
ChildNode(pointer, paged) ==
    IF pointer.kind = "OnDisk" THEN paged[pointer.position] ELSE pointer.entry.node

\* A position() that knows no location.
Pointer_position_none(self) == <<>>

\* Pointer::position: Some(location) of OnDisk, previous_location of Loaded.
Pointer_position(self) ==
    IF self.kind = "OnDisk" THEN <<self.position>> ELSE self.previous_location

\* Pointer::map_loaded_entry of a Loaded pointer: callback(entry, file).
Pointer_map_loaded(self, c) ==
    [cache |-> c,
     result |-> [kind |-> "Loaded", bytes |-> self.entry.node, of |-> <<>>],
     callbacks |-> 1, deserialized |-> FALSE]

\* Interior::copy_data_to, as far as the pointer goes: self.position.load(file,
\* true, vault, None, 0); the node's own copy_data_to, which reports whether
\* it copied data (copied); with include_nodes the node is serialized and
\* written as a chunk of the paged writer; the pointer becomes OnDisk when a
\* position is known.
Interior_copy_data_to(self, c, file_path, include_nodes, copied, paged) ==
    LET read == IF self.kind = "OnDisk"
                THEN Pointer_load(c, file_path, self.position, TRUE, FALSE)
                ELSE [cache |-> c,
                      result |-> [kind |-> "Loaded", bytes |-> self.entry.node,
                                  of |-> <<>>]]
    IN IF read.result = DataIntegrity
       THEN [ok |-> FALSE, cache |-> read.cache, result |-> read.result,
             position |-> self, paged_writer |-> paged, any_data_copied |-> FALSE]
       ELSE
    LET held == IF self.kind = "OnDisk"
                  THEN Loaded(<<self.position>>,
                              BTreeEntry(read.result.bytes, FALSE, TRUE))
                  ELSE self
        chunk == PagedWriter_write_chunk(paged, held.entry.node)
        position == IF include_nodes THEN <<chunk.position>>
                    ELSE Pointer_position(held)
    IN IF include_nodes /\ ~held.entry.serializes
       THEN [ok |-> FALSE, cache |-> read.cache, result |-> read.result,
             position |-> held, paged_writer |-> paged,
             any_data_copied |-> FALSE]
       ELSE [ok |-> TRUE, cache |-> read.cache, result |-> read.result,
             position |-> IF position # <<>> THEN OnDisk(position[1]) ELSE held,
             paged_writer |-> IF include_nodes THEN chunk.paged_writer ELSE paged,
             any_data_copied |-> include_nodes \/ copied]

\* ------------------------------------------------------------- reducer
\* The sum of number_of_records over a list of BySequenceStats.
RECURSIVE SumOfRecords(_)
SumOfRecords(values) ==
    IF values = <<>> THEN 0
    ELSE values[1].number_of_records + SumOfRecords(Tail(values))

\* Reducer::node_count of BySequenceStats.
BySequenceStats_node_count(self) == self.number_of_records

\* Reducer::reduce of BySequenceStats: values.len().
BySequenceStats_reduce(values) == [number_of_records |-> Len(values)]

\* A rereduce that counts the stats it is given.
BySequenceStats_rereduce_len(values) == [number_of_records |-> Len(values)]

\* Reducer::rereduce of BySequenceStats: the sum of number_of_records.
BySequenceStats_rereduce(values) == [number_of_records |-> SumOfRecords(values)]

\* -------------------------------------------------------- file manager
\* No file on disk at a path, no pooled handle for it.
NoFile == 0

\* The file system and the StdFileManager before any call: no file on disk
\* (disk: path -> the file there; inodes: the files created so far), no
\* StdFile opened (objects: the path and the file of each StdFile), nothing
\* pooled (open_files: path -> the pooled StdFile).
NoFiles == [disk |-> [path \in TreePaths |-> NoFile], inodes |-> 0,
            objects |-> <<>>, open_files |-> [path \in TreePaths |-> NoFile]]

\* StdFile::open_for_append and the insert into the pool: OpenOptions with
\* create(true) opens the file at the path, creating it when there is none;
\* the StdFile is the next object, pooled under the path.
StdFile_open_for_append(fm, path) ==
    LET inode == IF fm.disk[path] = NoFile THEN fm.inodes + 1 ELSE fm.disk[path] IN
    [fm EXCEPT !.disk[path] = inode,
               !.inodes = IF fm.disk[path] = NoFile THEN @ + 1 ELSE @,
               !.objects = Append(@, [path |-> path, inode |-> inode]),
               !.open_files[path] = Len(fm.objects) + 1]

\* An append that opens the file again whether it is pooled or not.
StdFileManager_append_unpooled(fm, path) ==
    [fm |-> StdFile_open_for_append(fm, path), file |-> Len(fm.objects) + 1]

\* StdFileManager::append: the pooled StdFile of the path, or a new one. The
\* file manager after the call and the StdFile the returned handle holds.
StdFileManager_append(fm, path) ==
    IF fm.open_files[path] # NoFile
    THEN [fm |-> fm, file |-> fm.open_files[path]]
    ELSE [fm |-> StdFile_open_for_append(fm, path),
          file |-> Len(fm.objects) + 1]

\* StdFileManager::delete; removed tells whether std::fs::remove_file
\* succeeds. The pooled handle is dropped before the file is removed.
StdFileManager_delete(fm, path, removed) ==
    IF fm.disk[path] # NoFile
    THEN [fm |-> [fm EXCEPT !.open_files[path] = NoFile,
                            !.disk[path] = IF removed THEN NoFile ELSE @],
          result |-> IF removed THEN "true" ELSE "Io"]
    ELSE [fm |-> fm, result |-> "false"]

\* StdFile::open_for_read: File::open(path).unwrap().
StdFile_open_for_read(fm, path) ==
    IF fm.disk[path] = NoFile THEN "panic" ELSE "Ok"

\* StdFileManager::read.
StdFileManager_read(fm, path) == StdFile_open_for_read(fm, path)

\* No call has been made to the Roots or its file manager yet.
NoFsCall == [op |-> "none", path |-> <<>>, result |-> "none", existed |-> FALSE,
             cached |-> FALSE, deleted |-> "none"]

\* No serialize_to or deserialize_from call has been made yet.
NoSerCall == [op |-> "none", type |-> "none", value |-> <<>>, ok |-> TRUE,
              error |-> "none", after |-> <<>>, produced |-> <<>>, entry |-> <<>>]

Init ==
    /\ next_id = 1
    /\ reserved = [t \in TreeNames \cup PoolNames |-> 0]
    /\ log = <<>>
    /\ tree_states = [t \in TreeNames \cup PoolNames |-> DefaultState]
    /\ pc = [p \in Clients |-> "idle"]
    /\ transaction = [p \in Clients |-> NoHandle]
    /\ trees = [p \in Clients |-> <<>>]
    /\ taken = [p \in Clients |-> <<>>]
    /\ results = [p \in Clients |-> <<>>]
    /\ loaded = [p \in Clients |-> 0]
    /\ ops = 0
    /\ queue = <<>>
    /\ thread_count = 0
    /\ workers = <<>>
    /\ chan = [p \in Clients |-> <<>>]
    /\ current = [p \in Clients |-> NoCurrent]
    /\ outcome = [p \in Clients |-> NoOutcome]
    /\ files = [t \in TreeNames \cup PoolNames |-> <<>>]
    /\ wanted = [p \in Clients |-> <<>>]
    /\ cache = <<>>
    /\ call = NoCall
    /\ chunks = [key \in {ChunkKey(f, n) : f \in Paths, n \in Positions} |-> NoChunk]
    /\ writer = <<>>
    /\ paged_writer = StoredNodes
    /\ records = <<>>
    /\ reading = FALSE
    /\ reader = <<>>
    /\ decoded = <<>>
    /\ ser_call = NoSerCall
    /\ entries = <<>>
    /\ leaves = <<>>
    /\ leaf_stats = <<>>
    /\ node_stats = BySequenceStats_rereduce(<<>>)
    /\ file_manager = NoFiles
    /\ returned = {}
    /\ stale = {}
    /\ executing = {}
    /\ state_names = {}
    /\ opened = {}
    /\ fs_call = NoFsCall

\* ------------------------------------------------------------- actions
\* The number of callers blocked in new_transaction.
Waiting == Cardinality({p \in Clients : pc[p] = "waiting"})

\* Roots::transaction(trees), as far as the transaction manager and the
\* trees go: new_transaction waits until every name is free, reserves them
\* all and assigns the id; then each tree begins the transaction on its
\* state. begin_transaction may fail (ok = FALSE): the handle is dropped
\* again.
Roots_transaction_begin(p, names, ok) ==
    /\ \/ pc[p] = "idle" /\ next_id + Waiting <= MaxTxns
       \/ pc[p] = "waiting" /\ wanted[p] = names
    /\ \A t \in TransactionNames(names) : reserved[t] = 0
    /\ LET handle == [id |-> next_id, tree_names |-> TransactionNames(names)] IN
       /\ next_id' = next_id + 1
       /\ IF ok
          THEN /\ reserved' = [t \in DOMAIN reserved |->
                                  IF t \in handle.tree_names THEN handle.id
                                  ELSE reserved[t]]
               /\ transaction' = [transaction EXCEPT ![p] = handle]
               /\ trees' = [trees EXCEPT ![p] = names]
               /\ pc' = [pc EXCEPT ![p] = "executing"]
               /\ current' = [current EXCEPT ![p] =
                              [NoCurrent EXCEPT !.id = handle.id]]
               /\ outcome' = [outcome EXCEPT ![p] = NoOutcome]
          ELSE /\ pc' = [pc EXCEPT ![p] = "idle"]
               /\ UNCHANGED <<reserved, transaction, trees, current, outcome>>
    /\ wanted' = [wanted EXCEPT ![p] = <<>>]
    /\ UNCHANGED <<log, tree_states, taken, results, loaded, ops, queue,
                   thread_count, workers, chan, files, chunk_vars, ser_vars,
                   reduce_vars>>

\* Roots::transaction(trees) on trees whose states Data.tree_states holds.
Roots_transaction(p, names, ok) ==
    /\ Roots_transaction_begin(p, names, ok)
    /\ UNCHANGED fs_vars

\* Roots::transaction(trees) with a name that is reserved: new_transaction
\* blocks, holding nothing, until every name is free.
Roots_transaction_wait(p, names) ==
    /\ pc[p] = "idle"
    /\ next_id + Waiting <= MaxTxns
    /\ \E t \in TransactionNames(names) : reserved[t] # 0
    /\ pc' = [pc EXCEPT ![p] = "waiting"]
    /\ wanted' = [wanted EXCEPT ![p] = names]
    /\ UNCHANGED <<next_id, reserved, log, tree_states, transaction, trees, taken,
                   results, loaded, ops, queue, thread_count, workers, chan, current, outcome,
                   files, chunk_vars, lib_vars>>

\* A modification of key in tree t inside the transaction of p leaves
\* `active`; the caller asked for the value w to be stored (None: for the key
\* to be removed).
Modify(p, t, key, active, w) ==
    /\ tree_states' = [tree_states EXCEPT ![t].active = active]
    /\ ops' = ops + 1
    /\ current' = [current EXCEPT
                      ![p].wrote = IF active = tree_states[t].active THEN @
                                   ELSE @ \cup {t},
                      ![p].written[<<t, key>>] = w]
    /\ UNCHANGED <<next_id, reserved, log, pc, transaction, trees, taken, results,
                   loaded, queue, thread_count, workers, chan, outcome, files, wanted, chunk_vars, lib_vars>>

\* ExecutingTransaction::tree(index) of a transaction that has not ended.
CanModify(p, t) ==
    /\ pc[p] = "executing"
    /\ ~current[p].call
    /\ ops < MaxOps
    /\ t \in Range(trees[p])

Set(p, t, key, value) ==
    /\ CanModify(p, t)
    /\ Modify(p, t, key,
              TransactionTree_set(tree_states[t].active, transaction[p].id, key, value),
              value)

Replace(p, t, key, value) ==
    /\ CanModify(p, t)
    /\ Modify(p, t, key,
              TransactionTree_replace(tree_states[t].active, transaction[p].id, key,
                                      value),
              value)

Remove(p, t, key) ==
    /\ CanModify(p, t)
    /\ Modify(p, t, key,
              TransactionTree_remove(tree_states[t].active, transaction[p].id, key),
              None)

\* TransactionTree::compare_and_swap; a Conflict leaves the tree as it is and
\* is returned to the caller, who still holds the transaction.
CompareAndSwap(p, t, key, old, new) ==
    /\ CanModify(p, t)
    /\ LET stored == TransactionTree_get(t, key)
           active == TransactionTree_compare_and_swap(tree_states[t].active,
                                                      transaction[p].id, key, old, new)
       IN IF CompareSwapResult(stored, old).conflict
          THEN /\ tree_states' = [tree_states EXCEPT ![t].active = active]
               /\ current' = [current EXCEPT ![p].conflicted = TRUE]
               /\ ops' = ops + 1
               /\ UNCHANGED <<next_id, reserved, log, pc, transaction, trees, taken,
                              results, loaded, queue, thread_count, workers, chan,
                              outcome, files, wanted, chunk_vars, lib_vars>>
          ELSE Modify(p, t, key, active, new)

\* Tree::compare_and_swap, up to its commit: a transaction of its own on the
\* one tree, and TransactionTree::compare_and_swap in it. On a Conflict the
\* `?` returns it and the transaction is dropped; otherwise
\* transaction.commit() is next.
Tree_compare_and_swap(p, t, key, old, new) ==
    /\ pc[p] = "idle"
    /\ next_id + Waiting <= MaxTxns
    /\ ops < MaxOps
    /\ \A n \in TransactionNames(<<t>>) : reserved[n] = 0
    /\ LET handle == [id |-> next_id, tree_names |-> TransactionNames(<<t>>)]
           stored == TreeFile_get(tree_states[t], key, TRUE)
           active == TransactionTree_compare_and_swap(tree_states[t].active,
                                                      handle.id, key, old, new)
           modified == [tree_states EXCEPT ![t].active = active]
       IN /\ next_id' = next_id + 1
          /\ IF CompareSwapResult(stored, old).conflict
             THEN /\ tree_states' = Drop_tree_states(handle, <<t>>, modified)
                  /\ outcome' = [outcome EXCEPT ![p] =
                                     [status |-> "conflict", id |-> handle.id]]
                  /\ UNCHANGED <<reserved, pc, transaction, trees, current, ops>>
             ELSE /\ tree_states' = modified
                  /\ reserved' = [n \in DOMAIN reserved |->
                                     IF n \in handle.tree_names THEN handle.id
                                     ELSE reserved[n]]
                  /\ transaction' = [transaction EXCEPT ![p] = handle]
                  /\ trees' = [trees EXCEPT ![p] = <<t>>]
                  /\ pc' = [pc EXCEPT ![p] = "executing"]
                  /\ current' = [current EXCEPT ![p] =
                                    [NoCurrent EXCEPT
                                        !.id = handle.id,
                                        !.wrote = IF active = tree_states[t].active
                                                  THEN {} ELSE {t},
                                        !.written[<<t, key>>] = new,
                                        !.call = TRUE]]
                  /\ outcome' = [outcome EXCEPT ![p] = NoOutcome]
                  /\ ops' = ops + 1
    /\ UNCHANGED <<log, taken, results, loaded, queue, thread_count, workers, chan, files,
                   wanted, chunk_vars, lib_vars>>

\* drop(transaction) before commit: Drop rolls every tree of self.trees back
\* and drops the handle.
ExecutingTransaction_drop(p) ==
    /\ pc[p] = "executing"
    /\ ~current[p].call
    /\ tree_states' = Drop_tree_states(transaction[p], trees[p], tree_states)
    /\ reserved' = Release(transaction[p])
    /\ Finish(p, "dropped")
    /\ UNCHANGED <<next_id, log, ops, queue, thread_count, workers, files, wanted, chunk_vars, lib_vars>>

\* commit returns an error of commit_trees: Drop runs with the handle still
\* in self.transaction and with the self.trees that commit has left
\* (mem::take: none).
CommitTreesFailed(p) ==
    /\ tree_states' = Drop_tree_states(transaction[p], <<>>, tree_states)
    /\ reserved' = Release(transaction[p])
    /\ Finish(p, "flush_failed")

\* commit, one tree: commit_trees flushes it on the caller's thread.
Commit_inline(p, ok) ==
    /\ pc[p] = "executing"
    /\ Len(trees[p]) = 1
    /\ IF ok
       THEN /\ pc' = [pc EXCEPT ![p] = "push"]
            /\ taken' = [taken EXCEPT ![p] = trees[p]]
            /\ trees' = [trees EXCEPT ![p] = <<>>]
            /\ results' = [results EXCEPT ![p] = trees[p]]
            /\ files' = [files EXCEPT ![trees[p][1]] =
                            TreeFile_commit(@, transaction[p].id,
                                            tree_states[trees[p][1]].active)]
            /\ UNCHANGED <<tree_states, reserved, transaction, loaded, chan, current,
                           outcome>>
       ELSE CommitTreesFailed(p) /\ files' = files
    /\ UNCHANGED <<next_id, log, ops, queue, thread_count, workers, wanted, chunk_vars, lib_vars>>

\* commit, several trees: commit_trees sends every tree to the pool.
Commit_send(p) ==
    /\ pc[p] = "executing"
    /\ Len(trees[p]) >= 2
    /\ queue' = queue \o [i \in 1..Len(trees[p]) |->
                             [tree |-> trees[p][i], id |-> transaction[p].id,
                              owner |-> p]]
    /\ taken' = [taken EXCEPT ![p] = trees[p]]
    /\ trees' = [trees EXCEPT ![p] = <<>>]
    /\ pc' = [pc EXCEPT ![p] = "scale"]
    /\ UNCHANGED <<next_id, reserved, log, tree_states, transaction, results,
                   loaded, ops, thread_count, workers, chan, current, outcome, files, wanted, chunk_vars, lib_vars>>

\* The scale loop asking for no thread.
desired_threads_none(tree_count) == 0

\* desired_threads = tree_count.min(*CPU_COUNT).
desired_threads(tree_count) == Min(tree_count, CPU_COUNT)

\* The scale loop: thread_count.load, and the comparison with desired_threads.
Commit_scale_load(p) ==
    /\ pc[p] = "scale"
    /\ loaded' = [loaded EXCEPT ![p] = thread_count]
    /\ pc' = [pc EXCEPT ![p] =
                 IF thread_count >= desired_threads(Len(taken[p])) THEN "wait"
                 ELSE "cas"]
    /\ UNCHANGED <<next_id, reserved, log, tree_states, transaction, trees, taken,
                   results, ops, queue, thread_count, workers, chan, current, outcome, files,
                   wanted, chunk_vars, lib_vars>>

\* A compare_exchange that stores the new value whatever the cell holds.
compare_exchange_blind(cell, expected, new) == [ok |-> TRUE, value |-> new]

\* AtomicU16::compare_exchange(current, new): the value is stored only if the
\* cell holds the expected one.
compare_exchange(cell, expected, new) ==
    IF cell = expected THEN [ok |-> TRUE, value |-> new]
    ELSE [ok |-> FALSE, value |-> cell]

\* A spawned worker that holds no ThreadCommit: it is in receiver.recv().
NoJob == [tree |-> "none", id |-> 0, owner |-> "none"]

\* The scale loop: compare_exchange(thread_count, thread_count + 1), and the
\* spawn of a worker when it succeeds.
Commit_scale_cas(p) ==
    /\ pc[p] = "cas"
    /\ LET exchanged == compare_exchange(thread_count, loaded[p], loaded[p] + 1)
       IN /\ thread_count' = exchanged.value
          /\ workers' = IF exchanged.ok THEN Append(workers, NoJob) ELSE workers
    /\ pc' = [pc EXCEPT ![p] = "scale"]
    /\ UNCHANGED <<next_id, reserved, log, tree_states, transaction, trees, taken,
                   results, loaded, ops, queue, chan, current, outcome, files, wanted, chunk_vars, lib_vars>>

\* The completion receiver of a ThreadCommit still exists: the commit_trees
\* call that sent it has not returned.
ReceiverAlive(j) ==
    /\ pc[j.owner] \in {"scale", "cas", "wait"}
    /\ transaction[j.owner].id = j.id

\* transaction_commit_thread, a spawned worker: receiver.recv() hands it the
\* next ThreadCommit of the queue.
Worker_recv(w) ==
    /\ w <= Len(workers)
    /\ workers[w] = NoJob
    /\ queue # <<>>
    /\ workers' = [workers EXCEPT ![w] = Head(queue)]
    /\ queue' = Tail(queue)
    /\ UNCHANGED <<next_id, reserved, log, tree_states, pc, transaction, trees,
                   taken, results, loaded, ops, thread_count, chan, current, outcome,
                   files, wanted, chunk_vars, lib_vars>>

\* transaction_commit_thread, a worker with a ThreadCommit: tree.commit() and
\* the send of its result; a send to a dropped receiver is discarded.
Worker_commit(w, ok) ==
    /\ w <= Len(workers)
    /\ workers[w] # NoJob
    /\ workers' = [workers EXCEPT ![w] = NoJob]
    /\ chan' = IF ReceiverAlive(workers[w])
               THEN [chan EXCEPT ![workers[w].owner] =
                        Append(@, [tree |-> workers[w].tree, ok |-> ok])]
               ELSE chan
    /\ files' = IF ok
                THEN [files EXCEPT ![workers[w].tree] =
                         TreeFile_commit(@, workers[w].id,
                                         tree_states[workers[w].tree].active)]
                ELSE files
    /\ UNCHANGED <<next_id, reserved, log, tree_states, pc, transaction, trees,
                   taken, results, loaded, ops, queue, thread_count, current, outcome,
                   wanted, chunk_vars, lib_vars>>

\* The wait loop of commit_trees stopping one result short.
results_wanted_short(tree_count) == tree_count - 1

\* The number of results the wait loop of commit_trees receives.
results_wanted(tree_count) == tree_count

\* commit_trees: completion_receiver.recv()?? of the next result.
Commit_wait(p) ==
    /\ pc[p] = "wait"
    /\ chan[p] # <<>>
    /\ IF Head(chan[p]).ok
       THEN /\ results' = [results EXCEPT ![p] = Append(@, Head(chan[p]).tree)]
            /\ chan' = [chan EXCEPT ![p] = Tail(@)]
            /\ pc' = [pc EXCEPT ![p] =
                         IF Len(results[p]) + 1 >= results_wanted(Len(taken[p]))
                         THEN "push" ELSE "wait"]
            /\ UNCHANGED <<tree_states, reserved, transaction, trees, taken,
                           loaded, current, outcome>>
       ELSE CommitTreesFailed(p)
    /\ UNCHANGED <<next_id, log, ops, queue, thread_count, workers, files, wanted, chunk_vars, lib_vars>>

\* commit: transaction_manager.push(self.transaction.take().unwrap()). The
\* handle is moved into push: the log entry is appended and the reservations
\* are released; when push fails no entry is written, commit returns the
\* error and Drop finds no handle.
Commit_push(p, ok) ==
    /\ pc[p] = "push"
    /\ reserved' = Release(transaction[p])
    /\ IF ok
       THEN /\ log' = Append(log, [id |-> transaction[p].id,
                                   tree_names |-> transaction[p].tree_names,
                                   trees |-> Range(taken[p]),
                                   wrote |-> current[p].wrote])
            /\ transaction' = [transaction EXCEPT ![p] = NoHandle]
            /\ pc' = [pc EXCEPT ![p] = "publish"]
            /\ UNCHANGED <<tree_states, trees, taken, results, loaded, chan, current,
                           outcome>>
       ELSE /\ log' = log
            /\ tree_states' = Drop_tree_states(NoHandle, trees[p], tree_states)
            /\ Finish(p, "push_failed")
    /\ UNCHANGED <<next_id, ops, queue, thread_count, workers, files, wanted, chunk_vars, lib_vars>>

\* AnyTreeState::publish: the active state, as it is now, becomes the
\* published state.
State_publish(state) == [state EXCEPT !.published = state.active]

\* commit: tree.publish() of the next returned state; after the last one
\* commit returns Ok.
Commit_publish(p) ==
    /\ pc[p] = "publish"
    /\ results[p] # <<>>
    /\ tree_states' = [tree_states EXCEPT ![Head(results[p])] = State_publish(@)]
    /\ IF Len(results[p]) = 1
       THEN Finish(p, "committed")
       ELSE /\ results' = [results EXCEPT ![p] = Tail(@)]
            /\ UNCHANGED <<pc, transaction, trees, taken, loaded, chan, current,
                           outcome>>
    /\ UNCHANGED <<next_id, reserved, log, ops, queue, thread_count, workers, files, wanted, chunk_vars, lib_vars>>

Next ==
    \/ \E p \in Clients, names \in TreeLists, ok \in BOOLEAN :
          Roots_transaction(p, names, ok)
    \/ \E p \in Clients, t \in TreeNames, key \in Keys, value \in Values :
          Set(p, t, key, value)
    \/ \E p \in Clients, t \in TreeNames, key \in Keys, value \in Values :
          Replace(p, t, key, value)
    \/ \E p \in Clients, t \in TreeNames, key \in Keys : Remove(p, t, key)
    \/ \E p \in Clients, t \in TreeNames, key \in Keys,
          old \in Values \cup {None}, new \in Values \cup {None} :
          CompareAndSwap(p, t, key, old, new)
    \/ \E p \in Clients, names \in TreeLists : Roots_transaction_wait(p, names)
    \/ \E p \in Clients, t \in TreeNames, key \in Keys,
          old \in Values \cup {None}, new \in Values \cup {None} :
          Tree_compare_and_swap(p, t, key, old, new)
    \/ \E p \in Clients : ExecutingTransaction_drop(p)
    \/ \E p \in Clients, ok \in BOOLEAN : Commit_inline(p, ok)
    \/ \E p \in Clients : Commit_send(p)
    \/ \E p \in Clients : Commit_scale_load(p)
    \/ \E p \in Clients : Commit_scale_cas(p)
    \/ \E w \in Workers : Worker_recv(w)
    \/ \E w \in Workers, ok \in BOOLEAN : Worker_commit(w, ok)
    \/ \E p \in Clients : Commit_wait(p)
    \/ \E p \in Clients, ok \in BOOLEAN : Commit_push(p, ok)
    \/ \E p \in Clients : Commit_publish(p)

Spec == Init /\ [][Next]_vars

\* ------------------------------------------------ chunk cache, actions
\* A thread calls ChunkCache::insert; the mutex makes the call one step.
Cache_insert(file_path, position, buffer) ==
    /\ cache' = ChunkCache_insert(cache, file_path, position, buffer)
    /\ call' = [op |-> "insert", key |-> ChunkKey(file_path, position),
                buffer |-> buffer, result |-> NoEntry]
    /\ UNCHANGED <<roots_vars, chunks, lib_vars>>

\* A thread calls ChunkCache::replace_with_decoded.
Cache_replace_with_decoded(file_path, position, value) ==
    /\ cache' = ChunkCache_replace_with_decoded(cache, file_path, position, value)
    /\ call' = [op |-> "replace_with_decoded", key |-> ChunkKey(file_path, position),
                buffer |-> value, result |-> NoEntry]
    /\ UNCHANGED <<roots_vars, chunks, lib_vars>>

\* A thread calls ChunkCache::get.
Cache_get(file_path, position) ==
    /\ cache' = LruCache_get(cache, ChunkKey(file_path, position))
    /\ call' = [op |-> "get", key |-> ChunkKey(file_path, position),
                buffer |-> <<>>,
                result |-> ChunkCache_get(cache, file_path, position)]
    /\ UNCHANGED <<roots_vars, chunks, lib_vars>>

CacheNext ==
    \/ \E file_path \in Paths, position \in Positions, buffer \in Buffers :
          Cache_insert(file_path, position, buffer)
    \/ \E file_path \in Paths, position \in Positions, value \in DecodedValues :
          Cache_replace_with_decoded(file_path, position, value)
    \/ \E file_path \in Paths, position \in Positions :
          Cache_get(file_path, position)

\* The chunk cache alone, called by any number of threads.
CacheSpec == Init /\ [][CacheNext]_vars

\* ------------------------------------------------ chunk store, actions
\* write_chunk appends the chunk at the next position of the file.
Chunk_write(file_path, payload) ==
    /\ Cardinality({key \in DOMAIN chunks : chunks[key] # NoChunk}) < MaxChunks
    /\ \E position \in Positions :
          /\ chunks[ChunkKey(file_path, position)] = NoChunk
          /\ \A n \in 1..(position - 1) : chunks[ChunkKey(file_path, n)] # NoChunk
          /\ chunks' = [chunks EXCEPT ![ChunkKey(file_path, position)] =
                           write_chunk(payload)]
    /\ UNCHANGED <<roots_vars, cache, call, lib_vars>>

\* A stored chunk is damaged on disk: a byte of its payload, its length or
\* its CRC is changed.
Chunk_corrupt(file_path, position) ==
    /\ chunks[ChunkKey(file_path, position)] # NoChunk
    /\ ~Corrupted(chunks[ChunkKey(file_path, position)])
    /\ \E damaged \in Damages(chunks[ChunkKey(file_path, position)]) :
          chunks' = [chunks EXCEPT ![ChunkKey(file_path, position)] = damaged]
    /\ UNCHANGED <<roots_vars, cache, call, lib_vars>>

\* The pointers of the Interiors whose children are read: a child on disk, a
\* loaded one that is stored and unchanged, one that is stored and modified,
\* one that was never stored, and one whose serialization fails.
ChunkPointers ==
    {OnDisk(position) : position \in Positions}
    \cup {Loaded(<<1>>, BTreeEntry(<<1>>, FALSE, TRUE)),
          Loaded(<<1>>, BTreeEntry(<<2>>, TRUE, TRUE)),
          Loaded(<<>>, BTreeEntry(<<2>>, TRUE, TRUE)),
          Loaded(<<>>, BTreeEntry(<<2>>, TRUE, FALSE))}

\* The chunk an OnDisk pointer names has been written.
Stored(self, file_path) ==
    self.kind = "OnDisk" => chunks[ChunkKey(file_path, self.position)] # NoChunk

\* The last read through a Pointer: the pointer before and after the call,
\* the cache entry there was for its position, and the result.
ReadCall(op, file_path, self, after, read) ==
    [op |-> op,
     key |-> ChunkKey(file_path, IF Pointer_position(self) = <<>> THEN 0
                                 ELSE Pointer_position(self)[1]),
     buffer |-> <<>>, result |-> read.result, pointer |-> self, after |-> after,
     hit |-> IF self.kind = "OnDisk"
             THEN ChunkCache_get(cache, file_path, self.position) ELSE NoEntry]

\* Pointer::load of OnDisk(position), with the cache or without.
Call_Pointer_load(file_path, position, validate_crc, with_cache) ==
    /\ chunks[ChunkKey(file_path, position)] # NoChunk
    /\ LET read == Pointer_load(cache, file_path, position, validate_crc, with_cache)
       IN /\ cache' = read.cache
          /\ call' = ReadCall("load", file_path, OnDisk(position),
                              IF read.result = DataIntegrity THEN OnDisk(position)
                              ELSE Loaded(<<position>>,
                                          BTreeEntry(read.result.bytes, FALSE, TRUE)),
                              read)
    /\ UNCHANGED <<roots_vars, chunks, lib_vars>>

\* Pointer::map_loaded_entry(&self, ..): the pointer is borrowed, not changed.
Call_Pointer_map_loaded_entry(self, file_path, with_cache) ==
    /\ Stored(self, file_path)
    /\ LET read == IF self.kind = "OnDisk"
                   THEN Pointer_map_loaded_entry(cache, file_path, self.position,
                                                 with_cache)
                   ELSE Pointer_map_loaded(self, cache)
       IN /\ cache' = read.cache
          /\ call' = ReadCall("map_loaded_entry", file_path, self, self, read)
                         @@ [callbacks |-> read.callbacks,
                             deserialized |-> read.deserialized,
                             with_cache |-> with_cache]
    /\ UNCHANGED <<roots_vars, chunks, lib_vars>>

\* Interior::copy_data_to of an entry with the pointer self, into the paged
\* writer of the file the tree is copied to.
Call_Interior_copy_data_to(self, file_path, include_nodes, copied) ==
    /\ Stored(self, file_path)
    /\ include_nodes => Len(paged_writer) < Len(StoredNodes) + MaxChunks
    /\ LET read == Interior_copy_data_to(self, cache, file_path, include_nodes,
                                         copied, paged_writer)
       IN /\ cache' = read.cache
          /\ paged_writer' = read.paged_writer
          /\ call' = ReadCall("copy_data_to", file_path, self, read.position, read)
                         @@ [ok |-> read.ok, include_nodes |-> include_nodes,
                             copied |-> copied,
                             any_data_copied |-> read.any_data_copied,
                             paged |-> paged_writer]
    /\ UNCHANGED <<roots_vars, chunks, reduce_vars, fs_vars>>
    /\ UNCHANGED <<writer, records, reading, reader, decoded, ser_call>>

ChunkNext ==
    \/ \E file_path \in Paths, payload \in Payloads : Chunk_write(file_path, payload)
    \/ \E file_path \in Paths, position \in Positions :
          Chunk_corrupt(file_path, position)
    \/ \E file_path \in Paths, position \in Positions,
          validate_crc \in BOOLEAN, with_cache \in BOOLEAN :
          Call_Pointer_load(file_path, position, validate_crc, with_cache)
    \/ \E self \in ChunkPointers, file_path \in Paths, with_cache \in BOOLEAN :
          Call_Pointer_map_loaded_entry(self, file_path, with_cache)
    \/ \E self \in ChunkPointers, file_path \in Paths,
          include_nodes \in BOOLEAN, copied \in BOOLEAN :
          Call_Interior_copy_data_to(self, file_path, include_nodes, copied)

\* The chunks of the tree files, written, damaged and read through Pointers.
ChunkSpec == Init /\ [][ChunkNext]_vars

\* new_transaction returning to a caller that waits in it.
Granted(p) ==
    /\ pc[p] = "waiting"
    /\ \E names \in TreeLists \cup PoolLists, ok \in BOOLEAN :
          Roots_transaction(p, names, ok)

\* The thread of client p ends the transaction it has started: it commits it,
\* step after step, or drops it.
Ended(p) ==
    \/ ExecutingTransaction_drop(p)
    \/ \E ok \in BOOLEAN : Commit_inline(p, ok)
    \/ Commit_send(p)
    \/ Commit_scale_load(p)
    \/ Commit_scale_cas(p)
    \/ Commit_wait(p)
    \/ \E ok \in BOOLEAN : Commit_push(p, ok)
    \/ Commit_publish(p)

\* The spawned workers of the pool run.
Pool(w) ==
    \/ Worker_recv(w)
    \/ \E ok \in BOOLEAN : Worker_commit(w, ok)

\* Every thread is scheduled: a started transaction is eventually committed or
\* dropped, the pool's workers take the jobs sent to them, and a caller whose
\* names are free again and again is eventually served (the wait is fair).
LiveSpec ==
    /\ Spec
    /\ \A p \in Clients : WF_vars(Ended(p)) /\ SF_vars(Granted(p))
    /\ \A w \in Workers : WF_vars(Pool(w))

\* ------------------------------------------------- the commit pool alone
\* Callers that only commit transactions of several trees, unmodified, so
\* that their commit_trees calls meet in the pool.
PoolNext ==
    \/ \E p \in Clients, names \in PoolLists, ok \in BOOLEAN :
          Roots_transaction(p, names, ok)
    \/ \E p \in Clients, names \in PoolLists : Roots_transaction_wait(p, names)
    \/ \E p \in Clients : Commit_send(p)
    \/ \E p \in Clients : Commit_scale_load(p)
    \/ \E p \in Clients : Commit_scale_cas(p)
    \/ \E w \in Workers : Worker_recv(w)
    \/ \E w \in Workers, ok \in BOOLEAN : Worker_commit(w, ok)
    \/ \E p \in Clients : Commit_wait(p)
    \/ \E p \in Clients, ok \in BOOLEAN : Commit_push(p, ok)
    \/ \E p \in Clients : Commit_publish(p)

PoolSpec == Init /\ [][PoolNext]_vars

\* The pool with every thread scheduled: the callers go on through commit,
\* every spawned worker takes the jobs it can receive and finishes the commit
\* of the tree it holds.
PoolLiveSpec ==
    /\ PoolSpec
    /\ \A p \in Clients : WF_vars(Ended(p)) /\ SF_vars(Granted(p))
    /\ \A w \in Workers : WF_vars(Pool(w))

\* ---------------------------------------------- serialization, actions
\* A caller serializes one more value onto the writer. An error ends the
\* writing: the `?` of the caller returns it.
Serialize(input) ==
    /\ ~reading
    /\ ser_call.ok
    /\ Len(records) < MaxRecords
    /\ LET result == serialize_to(input, writer, paged_writer)
           interior == input.type = "Interior"
       IN /\ ser_call' = [op |-> "serialize", type |-> input.type,
                          value |-> input.value, ok |-> result.ok,
                          error |-> IF result.ok THEN "none" ELSE result.error,
                          after |-> IF interior THEN result.self ELSE input.value,
                          produced |-> IF result.ok
                                       THEN Drop(result.writer, BufLen(writer))
                                       ELSE <<>>,
                          entry |-> IF interior THEN result.entry ELSE <<>>]
          /\ paged_writer' = IF interior THEN result.paged_writer ELSE paged_writer
          /\ IF result.ok
             THEN /\ writer' = result.writer
                  /\ records' = Append(records,
                         [type |-> input.type, value |-> input.value,
                          child |-> IF interior
                                    THEN ChildNode(input.value.position, paged_writer)
                                    ELSE 0,
                          produced |-> BufLen(result.writer) - BufLen(writer),
                          bytes_written |-> result.bytes_written])
             ELSE UNCHANGED <<writer, records>>
    /\ UNCHANGED <<reading, reader, decoded>>
    /\ UNCHANGED <<roots_vars, chunk_vars, reduce_vars, fs_vars>>

\* A caller deserializes the next value of the bytes that were written, from
\* their start on, with the type it was written as.
Deserialize ==
    /\ ser_call.ok
    /\ Len(decoded) < Len(records)
    /\ LET from == IF reading THEN reader ELSE writer
           type == records[Len(decoded) + 1].type
           result == deserialize_from(type, from)
       IN /\ ser_call' = [op |-> "deserialize", type |-> type, value |-> <<>>,
                          ok |-> result.ok,
                          error |-> IF result.ok THEN "none" ELSE result.error,
                          after |-> <<>>, produced |-> <<>>, entry |-> <<>>]
          /\ reader' = IF result.ok THEN result.reader ELSE from
          /\ decoded' = IF result.ok
                        THEN Append(decoded,
                                 [value |-> result.value,
                                  consumed |-> BufLen(from) - BufLen(result.reader)])
                        ELSE decoded
    /\ reading' = TRUE
    /\ UNCHANGED <<writer, paged_writer, records>>
    /\ UNCHANGED <<roots_vars, chunk_vars, reduce_vars, fs_vars>>

SerNext ==
    \/ \E input \in SerInputs(Len(records) + 1) : Serialize(input)
    \/ Deserialize

\* The serialization of the nodes and records of a tree file, alone.
SerSpec == Init /\ [][SerNext]_vars

\* ------------------------------------------------------ reducer, actions
\* An index entry is added to the list, in the group-th leaf (a new leaf when
\* there is none): the stats of the leaf are reduced from its entries again,
\* and the stats of the node above are rereduced from those of the leaves.
Reduce_insert(index, group) ==
    /\ Len(entries) < MaxEntries
    /\ group \in 1..(Len(leaves) + 1)
    /\ LET leaf == IF group > Len(leaves) THEN <<index>>
                   ELSE Append(leaves[group], index)
           grown == IF group > Len(leaves) THEN Append(leaves, leaf)
                    ELSE [leaves EXCEPT ![group] = leaf]
           reduced == [g \in 1..Len(grown) |->
                          IF g = group THEN BySequenceStats_reduce(leaf)
                          ELSE leaf_stats[g]]
       IN /\ entries' = Append(entries, index)
          /\ leaves' = grown
          /\ leaf_stats' = reduced
          /\ node_stats' = BySequenceStats_rereduce(reduced)
    /\ UNCHANGED <<roots_vars, chunk_vars, ser_vars, fs_vars>>

ReduceNext ==
    \E index \in Indexes, group \in 1..MaxEntries : Reduce_insert(index, group)

\* The reducer of the by-sequence index, alone.
ReduceSpec == Init /\ [][ReduceNext]_vars

\* ------------------------------------------------ file manager, actions
\* Roots::tree(name): the file is created through the file manager when the
\* path does not exist; the state of the tree is looked up, or inserted, in
\* tree_states; a Tree handle is returned.
Roots_tree(name) ==
    /\ file_manager.disk[tree_path(name)] # NoFile \/ Len(file_manager.objects) < MaxObjects
    /\ LET path == tree_path(name)
           appended == StdFileManager_append(file_manager, path)
       IN /\ file_manager' = IF file_manager.disk[path] = NoFile THEN appended.fm ELSE file_manager
          /\ returned' = IF file_manager.disk[path] = NoFile
                         THEN returned \cup {appended.file} ELSE returned
          /\ fs_call' = [op |-> "tree", path |-> path, result |-> "Ok",
                         existed |-> file_manager.disk[path] # NoFile,
                         cached |-> name \in state_names, deleted |-> "none"]
    /\ state_names' = state_names \cup {name}
    /\ opened' = opened \cup {name}
    /\ UNCHANGED <<stale, executing>>
    /\ UNCHANGED <<roots_vars, chunk_vars, ser_vars, reduce_vars>>

\* A thread opens the file of a tree for writing: file_manager.append(path).
FileManager_append(path) ==
    /\ file_manager.open_files[path] # NoFile \/ Len(file_manager.objects) < MaxObjects
    /\ LET appended == StdFileManager_append(file_manager, path)
       IN /\ file_manager' = appended.fm
          /\ returned' = returned \cup {appended.file}
          /\ fs_call' = [op |-> "append", path |-> path, result |-> appended.file,
                         existed |-> file_manager.disk[path] # NoFile, cached |-> FALSE, deleted |-> "none"]
    /\ UNCHANGED <<stale, executing, state_names, opened>>
    /\ UNCHANGED <<roots_vars, chunk_vars, ser_vars, reduce_vars>>

\* Roots::delete_tree(name): file_manager.delete(path)?, then
\* tree_states.remove(name).is_some() is returned. The chunks of a file that
\* is removed are gone with it; the chunk cache is not touched.
Roots_delete_tree(name, removed) ==
    /\ LET path == tree_path(name)
           deleted == StdFileManager_delete(file_manager, path, removed)
       IN /\ file_manager' = deleted.fm
          /\ state_names' = IF deleted.result = "Io" THEN state_names ELSE state_names \ {name}
          /\ fs_call' = [op |-> "delete_tree", path |-> path,
                         result |-> IF deleted.result = "Io" THEN "Io"
                                    ELSE IF name \in state_names THEN "true"
                                    ELSE "false",
                         existed |-> file_manager.disk[path] # NoFile,
                         cached |-> name \in state_names,
                         deleted |-> deleted.result]
          /\ stale' = IF deleted.result = "true"
                      THEN stale \cup {file \in returned : file_manager.objects[file].path = path}
                      ELSE stale
          /\ returned' = IF file_manager.disk[path] # NoFile
                         THEN {file \in returned : file_manager.objects[file].path # path}
                         ELSE returned
          /\ chunks' = [key \in DOMAIN chunks |->
                           IF key.file_path = path /\ deleted.result = "true"
                           THEN NoChunk ELSE chunks[key]]
    /\ UNCHANGED <<executing, opened>>
    /\ UNCHANGED <<roots_vars, cache, call, ser_vars, reduce_vars>>

\* OpenStdFile::execute, up to the lock: self.0.lock() is taken once no other
\* operation holds the mutex of the StdFile.
Execute_lock(file) ==
    /\ file \in returned \cup stale
    /\ file \notin executing
    /\ executing' = executing \cup {file}
    /\ UNCHANGED <<file_manager, returned, stale, state_names, opened, fs_call>>
    /\ UNCHANGED <<roots_vars, chunk_vars, ser_vars, reduce_vars>>

\* OpenStdFile::execute: writer.execute(&mut file) has run, the guard is
\* dropped.
Execute_unlock(file) ==
    /\ file \in executing
    /\ executing' = executing \ {file}
    /\ fs_call' = [NoFsCall EXCEPT !.op = "execute",
                                   !.path = file_manager.objects[file].path,
                                   !.result = file]
    /\ UNCHANGED <<file_manager, returned, stale, state_names, opened>>
    /\ UNCHANGED <<roots_vars, chunk_vars, ser_vars, reduce_vars>>

\* Tree::get through a Tree handle: TreeFile::read opens the file of the tree
\* with file_manager.read(path).
Tree_get_read(name) ==
    /\ name \in opened
    /\ fs_call' = [op |-> "get", path |-> tree_path(name),
                   result |-> StdFileManager_read(file_manager, tree_path(name)),
                   existed |-> file_manager.disk[tree_path(name)] # NoFile,
                   cached |-> name \in state_names, deleted |-> "none"]
    /\ UNCHANGED <<file_manager, returned, stale, executing, state_names, opened>>
    /\ UNCHANGED <<roots_vars, chunk_vars, ser_vars, reduce_vars>>

\* The Roots is dropped with its handles and opened again, with a new file
\* manager, on the same directory: Roots::open.
Roots_open ==
    /\ executing = {}
    /\ file_manager' = [file_manager EXCEPT !.open_files = NoFiles.open_files]
    /\ returned' = {}
    /\ stale' = {}
    /\ state_names' = {}
    /\ opened' = {}
    /\ fs_call' = [NoFsCall EXCEPT !.op = "open"]
    /\ UNCHANGED executing
    /\ UNCHANGED <<roots_vars, chunk_vars, ser_vars, reduce_vars>>

FileNext ==
    \/ \E name \in TreeNames : Roots_tree(name)
    \/ \E path \in TreePaths : FileManager_append(path)
    \/ \E name \in TreeNames, removed \in BOOLEAN : Roots_delete_tree(name, removed)
    \/ \E file \in 1..MaxObjects : Execute_lock(file)
    \/ \E file \in 1..MaxObjects : Execute_unlock(file)
    \/ \E name \in TreeNames : Tree_get_read(name)
    \/ Roots_open

\* The Roots, its trees' files and the file manager, alone.
FileSpec == Init /\ [][FileNext]_vars

\* Roots::transaction(trees) with Data.tree_states in view: tree_states(trees)
\* inserts a state for every name that has none, between new_transaction and
\* begin_transaction.
Roots_transaction_states(p, names, ok) ==
    /\ Roots_transaction_begin(p, names, ok)
    /\ state_names' = state_names \cup Range(names)
    /\ fs_call' = [NoFsCall EXCEPT !.op = "transaction",
                                   !.path = tree_path(names[1]),
                                   !.result = IF ok THEN "Ok" ELSE "Err",
                                   !.cached = names[1] \in state_names]
    /\ UNCHANGED <<file_manager, returned, stale, executing, opened>>

DeleteNext ==
    \/ \E name \in TreeNames : Roots_tree(name)
    \/ \E name \in TreeNames, removed \in BOOLEAN : Roots_delete_tree(name, removed)
    \/ \E p \in Clients, t \in TreeNames, ok \in BOOLEAN :
          Roots_transaction_states(p, <<t>>, ok)
    \/ \E p \in Clients, t \in TreeNames, key \in Keys, value \in Values :
          Set(p, t, key, value)
    \/ \E p \in Clients : ExecutingTransaction_drop(p)
    \/ \E p \in Clients, ok \in BOOLEAN : Commit_inline(p, ok)
    \/ \E p \in Clients, ok \in BOOLEAN : Commit_push(p, ok)
    \/ \E p \in Clients : Commit_publish(p)

\* Transactions on single trees, and trees created and deleted meanwhile.
DeleteSpec == Init /\ [][DeleteNext]_vars

\* A chunk is written to the file of a tree that exists.
TreeFile_write_chunk(name, payload) ==
    /\ file_manager.disk[tree_path(name)] # NoFile
    /\ Chunk_write(tree_path(name), payload)

\* A node of a tree whose file exists is read from a position of the file,
\* through the chunk cache or past it.
TreeFile_read_chunk(name, position, validate_crc, with_cache) ==
    /\ file_manager.disk[tree_path(name)] # NoFile
    /\ Call_Pointer_load(tree_path(name), position, validate_crc, with_cache)

RecreateNext ==
    \/ \E name \in TreeNames : Roots_tree(name)
    \/ \E name \in TreeNames, removed \in BOOLEAN : Roots_delete_tree(name, removed)
    \/ \E name \in TreeNames, payload \in Payloads :
          TreeFile_write_chunk(name, payload)
    \/ \E name \in TreeNames, position \in Positions, validate_crc \in BOOLEAN,
          with_cache \in BOOLEAN :
          TreeFile_read_chunk(name, position, validate_crc, with_cache)

\* Trees created, written, read through the chunk cache, deleted and created
\* again.
RecreateSpec == Init /\ [][RecreateNext]_vars

\* -------------------------------------------------------------- claims
\* The ids of the transactions whose log entry has been pushed.
LogIds == {log[i].id : i \in 1..Len(log)}
\* The trees an ExecutingTransaction holds: those of self.trees and those
\* commit has moved out of it.
Held(p) == Range(trees[p]) \cup Range(taken[p])
\* s is a prefix of r.
IsPrefix(s, r) == Len(s) <= Len(r) /\ \A i \in 1..Len(s) : s[i] = r[i]
\* The place of id in a sequence of distinct ids that holds it.
Place(s, id) == CHOOSE i \in 1..Len(s) : s[i] = id

\* The watermark of recovery: the transaction log is scanned from its end to
\* the first valid entry, whose id is taken as the highest committed id.
LogWatermark == IF log = <<>> THEN 0 ELSE log[Len(log)].id

\* Recovery of a tree file: the last header whose embedded transaction id is
\* at most the watermark roots the recovered state; without one the tree is
\* empty.
RecoverTree(file, watermark) ==
    LET valid == {i \in 1..Len(file) : file[i].id <= watermark} IN
    IF valid = {} THEN EmptyState
    ELSE file[CHOOSE i \in valid : \A j \in valid : j <= i].state

\* C1. Isolation: while a transaction has not committed (its handle has not
\* been pushed), the published state of no tree holds a modification of it, so
\* that no Tree::get returns a value it wrote, and the working state another
\* transaction reads holds none of its modifications either.
C1_Isolation ==
    \A p \in Clients :
        transaction[p].id # 0 =>
            /\ \A t \in TreeNames :
                  transaction[p].id \notin Range(tree_states[t].published.txns)
            /\ \A q \in Clients \ {p} :
                  transaction[q].id # 0 =>
                      \A t \in Held(q) :
                          transaction[p].id \notin Range(tree_states[t].active.txns)

\* C2. Once commit has returned Ok, the published state of every tree the
\* transaction modified holds its modifications.
C2_VisibleAfterCommit ==
    \A p \in Clients, i \in 1..Len(log) :
        (outcome[p].status = "committed" /\ log[i].id = outcome[p].id) =>
            \A t \in log[i].wrote :
                log[i].id \in Range(tree_states[t].published.txns)

\* C3. Rollback: the step that drops a transaction before commit leaves every
\* tree of the transaction unreserved, with a working state equal to its
\* published state, and neither holds a modification of the dropped
\* transaction: a read of either returns what was published before it began.
C3_Rollback ==
    [][\A p \in Clients :
          (pc[p] = "executing" /\ outcome'[p].status = "dropped") =>
              \A t \in Range(trees[p]) :
                  /\ reserved'[t] = 0
                  /\ tree_states'[t].active = tree_states'[t].published
                  /\ current[p].id \notin Range(tree_states'[t].published.txns)]_vars

C5_CommitOrdering ==
    \A p \in Clients :
        /\ pc[p] = "push" => Range(results[p]) = Range(taken[p])
        /\ transaction[p].id # 0 => transaction[p].id \notin LogIds
        /\ pc[p] = "publish" =>
              (current[p].id \in LogIds /\ Range(results[p]) \subseteq Range(taken[p]))

\* A commit of two trees has pushed its entry and is publishing.
C5_Witness ==
    \E p \in Clients :
        pc[p] = "publish" /\ Len(taken[p]) = 2 /\ Len(results[p]) = 2

\* C6. A commit whose tree flush failed has pushed no log entry, holds no
\* reservation, and no tree's working state holds its modifications.
C6_FlushFailureDiscards ==
    \A p \in Clients :
        outcome[p].status = "flush_failed" =>
            /\ outcome[p].id \notin LogIds
            /\ \A t \in TreeNames :
                  /\ reserved[t] # outcome[p].id
                  /\ outcome[p].id \notin Range(tree_states[t].active.txns)

\* C7. A commit whose log push failed has published nothing, holds no
\* reservation, and no tree's working state holds its modifications.
C7_PushFailureAborts ==
    \A p \in Clients :
        outcome[p].status = "push_failed" =>
            \A t \in TreeNames :
                /\ reserved[t] # outcome[p].id
                /\ outcome[p].id \notin Range(tree_states[t].published.txns)
                /\ outcome[p].id \notin Range(tree_states[t].active.txns)

\* C8. Linearization at push: from the moment a transaction's entry is in the
\* log, the published state of every tree it modified holds its
\* modifications.
C8_LinearizationAtPush ==
    \A i \in 1..Len(log) :
        \A t \in log[i].wrote :
            log[i].id \in Range(tree_states[t].published.txns)

\* C9. Published monotonicity: every step extends the transactions a tree's
\* published state holds, and the published state holds pushed transactions
\* only, and of two pushed transactions that modified the tree never the
\* later one without the earlier one.
C9_PublishedMonotonic ==
    [][\A t \in TreeNames :
          /\ IsPrefix(tree_states[t].published.txns, tree_states'[t].published.txns)
          /\ Range(tree_states'[t].published.txns) \subseteq
                {log'[i].id : i \in 1..Len(log')}
          /\ \A i \in 1..Len(log'), j \in 1..Len(log') :
                (/\ i < j
                 /\ t \in log'[i].wrote \cap log'[j].wrote
                 /\ log'[j].id \in Range(tree_states'[t].published.txns))
                => log'[i].id \in Range(tree_states'[t].published.txns)]_vars

\* C10. Two pushed transactions that share a tree stand in the log in the
\* order of their ids, and wherever the working or the published state of a
\* shared tree holds the modifications of both, it holds them in that order.
C10_LogOrder ==
    \A i \in 1..Len(log), j \in 1..Len(log) :
        (i < j /\ log[i].trees \cap log[j].trees # {}) =>
            /\ log[i].id < log[j].id
            /\ \A t \in log[i].trees \cap log[j].trees :
                  \A s \in {tree_states[t].active.txns, tree_states[t].published.txns} :
                      (log[i].id \in Range(s) /\ log[j].id \in Range(s)) =>
                          Place(s, log[i].id) < Place(s, log[j].id)

\* Two committed transactions have modified the same tree, and its published
\* state holds the modifications of both.
C10_Witness ==
    \E t \in TreeNames :
        /\ Len(log) = 2
        /\ t \in log[1].wrote \cap log[2].wrote
        /\ {log[1].id, log[2].id} \subseteq Range(tree_states[t].published.txns)

\* C11. Atomicity under crash: whatever step the process crashes after,
\* recovery yields for every tree a state that holds the modifications of
\* exactly the transactions that modified it and whose log push completed.
C11_CrashAtomicity ==
    \A t \in TreeNames :
        Range(RecoverTree(files[t], LogWatermark).txns) =
            {log[i].id : i \in {j \in 1..Len(log) : t \in log[j].wrote}}

\* C12. The last entry of the transaction log carries the highest pushed id:
\* the watermark of recovery is at least the id of every pushed transaction.
C12_LogWatermark ==
    \A id \in LogIds : LogWatermark >= id

\* C13. Deadlock freedom: with every started transaction eventually committed
\* or dropped, a caller that waits in Roots::transaction for its trees to be
\* free is eventually served.
C13_DeadlockFreedom ==
    \A p \in Clients : (pc[p] = "waiting") ~> (pc[p] # "waiting")

\* A caller waits in Roots::transaction for several trees, one of which another
\* transaction holds.
C13_Witness ==
    \E p \in Clients, q \in Clients :
        /\ pc[p] = "waiting" /\ Len(wanted[p]) >= 2
        /\ transaction[q].id # 0
        /\ Range(wanted[p]) \cap Held(q) # {}

\* C14. Read-your-writes: inside a transaction, get, get_multiple, get_range
\* and scan return for every key the transaction has written the value it
\* wrote last, and nothing for a key it removed last.
C14_ReadYourWrites ==
    \A p \in Clients :
        pc[p] = "executing" =>
            \A t \in Range(trees[p]), k \in Keys :
                LET w == current[p].written[<<t, k>>]
                    expected == IF w = None THEN <<>> ELSE << <<k, w>> >>
                    OfKey(kv) == kv[1] = k
                IN w # Unwritten =>
                      /\ TransactionTree_get(t, k) = w
                      /\ TransactionTree_get_multiple(t, {k}) = expected
                      /\ SelectSeq(TransactionTree_get_range(t, Keys), OfKey) = expected
                      /\ SelectSeq(TransactionTree_scan(t, TRUE), OfKey) = expected
                      /\ SelectSeq(TransactionTree_scan(t, FALSE), OfKey) = expected

\* A transaction has written a key, or removed it, and the published state
\* of the tree holds another value for it.
C14_Witness ==
    \E p \in Clients :
        /\ pc[p] = "executing"
        /\ \E t \in Range(trees[p]), k \in Keys :
              /\ current[p].written[<<t, k>>] # Unwritten
              /\ current[p].written[<<t, k>>] # Tree_get(t, k)

\* C15. Inside a transaction, last_key and last return the greatest key of
\* the transaction-local state, and its value: they see the keys the
\* transaction has set and do not return a key it has removed.
C15_LastSeesOwnWrites ==
    \A p \in Clients :
        pc[p] = "executing" =>
            \A t \in Range(trees[p]) :
                LET local == TransactionTree_scan(t, FALSE) IN
                /\ TransactionTree_last_key(t) =
                      (IF local = <<>> THEN None ELSE local[1][1])
                /\ TransactionTree_last(t) =
                      (IF local = <<>> THEN <<>> ELSE <<local[1]>>)

\* C16, inside a transaction: compare_and_swap(key, old, new) with the stored
\* value equal to old returns Ok and leaves the key with new (absent when new
\* is None); otherwise it returns Conflict(stored value) and leaves the
\* stored value as it was.
C16_InTransaction ==
    [][\A p \in Clients, t \in TreeNames, key \in Keys,
         old \in Values \cup {None}, new \in Values \cup {None} :
          CompareAndSwap(p, t, key, old, new) =>
              LET stored == TransactionTree_get(t, key)
                  result == CompareSwapResult(stored, old)
              IN IF stored = old
                 THEN ~result.conflict /\ tree_states'[t].active.data[key] = new
                 ELSE /\ result.conflict /\ result.existing = stored
                      /\ tree_states'[t].active.data[key] = stored]_vars

\* C16. compare_and_swap(key, old, new) does as C16_InTransaction says, and
\* when Tree::compare_and_swap returns Ok the published state holds new for
\* the key (no value when new is None), and when it returns a Conflict the
\* published state is as it was.
C16_CompareAndSwap ==
    [][/\ \A p \in Clients :
            (current[p].call /\ outcome'[p].status = "committed") =>
                \A t \in TreeNames, key \in Keys :
                    current[p].written[<<t, key>>] # Unwritten =>
                        tree_states'[t].published.data[key] =
                            current[p].written[<<t, key>>]
       /\ \A p \in Clients :
            (outcome'[p].status = "conflict" /\ outcome'[p] # outcome[p]) =>
                \A t \in TreeNames :
                    tree_states'[t].published = tree_states[t].published
       /\ \A p \in Clients, t \in TreeNames, key \in Keys,
             old \in Values \cup {None}, new \in Values \cup {None} :
             CompareAndSwap(p, t, key, old, new) =>
                 LET stored == TransactionTree_get(t, key)
                     result == CompareSwapResult(stored, old)
                 IN IF stored = old
                    THEN ~result.conflict /\ tree_states'[t].active.data[key] = new
                    ELSE /\ result.conflict /\ result.existing = stored
                         /\ tree_states'[t].active.data[key] = stored]_vars

\* C17, the Conflict itself: the compare_and_swap that returns a Conflict
\* leaves every tree's state, the transaction's handle and trees and its
\* reservations as they were, and the transaction can still be used.
C17_ConflictRetains ==
    [][\A p \in Clients :
          (current'[p].conflicted /\ ~current[p].conflicted) =>
              /\ tree_states' = tree_states
              /\ reserved' = reserved
              /\ transaction'[p] = transaction[p] /\ transaction[p].id # 0
              /\ trees'[p] = trees[p]
              /\ pc'[p] = "executing"]_vars

\* C17. A Conflict returned by TransactionTree::compare_and_swap leaves the
\* transaction as it was (C17_ConflictRetains), and when the commit of a
\* transaction that met a Conflict returns Ok, the published state holds for
\* every key the value the transaction wrote last, before or after the
\* Conflict.
C17_ConflictDoesNotAbort ==
    [][\A p \in Clients :
          /\ (current'[p].conflicted /\ ~current[p].conflicted) =>
                 /\ tree_states' = tree_states
                 /\ transaction'[p] = transaction[p] /\ transaction[p].id # 0
                 /\ pc'[p] = "executing"
          /\ (current[p].conflicted /\ outcome'[p].status = "committed") =>
                 \A t \in TreeNames, key \in Keys :
                     current[p].written[<<t, key>>] # Unwritten =>
                         tree_states'[t].published.data[key] =
                             current[p].written[<<t, key>>]]_vars

\* C18. The chunk cache never holds more entries than its capacity or two
\* entries for one (file path, position); every entry stands under the key it
\* was made for, and get returns only an entry made for the file path and the
\* position asked for.
C18_CacheBounded ==
    /\ Len(cache) <= Capacity
    /\ \A i \in 1..Len(cache), j \in 1..Len(cache) :
          cache[i].key = cache[j].key => i = j
    /\ \A i \in 1..Len(cache) : cache[i].entry.of = cache[i].key
    /\ (call.op = "get" /\ call.result # NoEntry) => call.result.of = call.key

\* The cache is full, and get has returned the entry of a position for which
\* the cache holds an entry of another file too.
C18_Witness ==
    /\ Len(cache) = Capacity
    /\ call.op = "get" /\ call.result # NoEntry
    /\ \E i \in 1..Len(cache) :
          /\ cache[i].key.position = call.key.position
          /\ cache[i].key.file_path # call.key.file_path

\* C19. An insert of a buffer of at most max_chunk_length bytes leaves the
\* buffer cached under its key; an insert of a longer buffer leaves the cache
\* as it was; no cached Buffer is longer than max_chunk_length.
C19_InsertLength ==
    [][/\ (call'.op = "insert" /\ call' # call) =>
             IF Len(call'.buffer) <= MaxChunkLength
             THEN ChunkCache_get(cache', call'.key.file_path, call'.key.position) =
                      CacheEntry_Buffer(call'.buffer, call'.key)
             ELSE cache' = cache
       /\ \A i \in 1..Len(cache') :
             cache'[i].entry.kind = "Buffer" =>
                 Len(cache'[i].entry.bytes) <= MaxChunkLength]_vars

\* A buffer of exactly max_chunk_length bytes has been inserted and is cached.
C19_Witness ==
    /\ call.op = "insert"
    /\ Len(call.buffer) = MaxChunkLength
    /\ ChunkCache_get(cache, call.key.file_path, call.key.position) =
           CacheEntry_Buffer(call.buffer, call.key)

\* C20. CRC soundness: a read of a chunk through Pointer::load,
\* Pointer::map_loaded_entry or Interior::copy_data_to either fails with
\* DataIntegrity or yields the node of the bytes that were written.
C20_CrcSoundness ==
    (/\ call.op \in {"load", "map_loaded_entry", "copy_data_to"}
     /\ call.pointer.kind = "OnDisk") =>
        \/ call.result = DataIntegrity
        \/ call.result.bytes = chunks[call.key].written

\* C20, the read that always validates and goes past the cache:
\* Interior::copy_data_to.
C20_ValidatedReads ==
    (call.op = "copy_data_to" /\ call.pointer.kind = "OnDisk") =>
        \/ call.result = DataIntegrity
        \/ call.result.bytes = chunks[call.key].written

\* C20, for Pointer::map_loaded_entry: a read of a chunk through
\* map_loaded_entry either fails with DataIntegrity or passes to the callback
\* the node of the bytes that were written.
C20_MapLoadedEntry ==
    (call.op = "map_loaded_entry" /\ call.pointer.kind = "OnDisk") =>
        \/ call.result = DataIntegrity
        \/ call.result.bytes = chunks[call.key].written

\* C21. Round trip: once the values serialized onto a writer are
\* deserialized from its bytes, in order and with their types, no
\* deserialize_from fails, each consumes exactly the bytes that serialize_to
\* produced for its value, a KeyEntry, BySequenceIndex or BySequenceStats
\* comes back equal to the value serialized, and an Interior comes back with
\* the same key and stats and the pointer OnDisk(p), p being the position at
\* which its child node is stored.
C21_RoundTrip ==
    /\ ser_call.op = "deserialize" => ser_call.ok
    /\ \A i \in 1..Len(decoded) :
          /\ decoded[i].consumed = records[i].produced
          /\ IF records[i].type = "Interior"
             THEN /\ decoded[i].value.key = records[i].value.key
                  /\ decoded[i].value.stats = records[i].value.stats
                  /\ decoded[i].value.position.kind = "OnDisk"
                  /\ decoded[i].value.position.position \in 1..Len(paged_writer)
                  /\ paged_writer[decoded[i].value.position.position] =
                        records[i].child
             ELSE decoded[i].value = records[i].value

\* An Interior with a key of 65535 bytes and a loaded child that had to be
\* stored, and a KeyEntry with a document id of 65535 bytes, have both been
\* deserialized again.
C21_Witness ==
    /\ Len(decoded) = 2
    /\ records[1].type = "Interior"
    /\ BufLen(records[1].value.key) = U16_MAX
    /\ records[1].value.position.kind = "Loaded"
    /\ records[1].value.position.entry.dirty
    /\ records[2].type = "KeyEntry"
    /\ BufLen(records[2].value.index.document_id) = U16_MAX
    /\ BufLen(records[2].value.key) = 1

\* C22. serialize_to never truncates a length to 16 bits: a KeyEntry or
\* Interior with a key of more than 65535 bytes fails, with KeyTooLarge unless
\* the child of the Interior failed to serialize before; a BySequenceIndex
\* (alone or in a KeyEntry whose key fits) with a document id of more than
\* 65535 bytes fails with IdTooLarge; a key and an id of up to 65535 bytes are
\* accepted, and the length field written holds their length.
C22_RejectsOverLong ==
    ser_call.op = "serialize" =>
        LET value == ser_call.value
            keyed == ser_call.type \in {"KeyEntry", "Interior"}
            index == IF ser_call.type = "KeyEntry" THEN value.index ELSE value
            indexed == ser_call.type \in {"KeyEntry", "BySequenceIndex"}
            key_too_long == keyed /\ BufLen(value.key) > U16_MAX
            id_too_long == indexed /\ BufLen(index.document_id) > U16_MAX
            child_failed == /\ ser_call.type = "Interior"
                            /\ value.position.kind = "Loaded"
                            /\ ~value.position.entry.serializes
                            /\ (value.position.entry.dirty
                                \/ value.position.previous_location = <<>>)
        IN /\ key_too_long => ~ser_call.ok
           /\ (key_too_long /\ ~child_failed) => ser_call.error = "KeyTooLarge"
           /\ (id_too_long /\ ~key_too_long) =>
                 (~ser_call.ok /\ ser_call.error = "IdTooLarge")
           /\ (~key_too_long /\ ~id_too_long /\ ~child_failed) => ser_call.ok
           /\ (ser_call.ok /\ keyed) =>
                 /\ FromBigEndian(ser_call.produced, 2) = BufLen(value.key)
                 /\ Take(Drop(ser_call.produced, 2), BufLen(value.key)) = value.key
           /\ (ser_call.ok /\ indexed) =>
                 LET at == IF keyed THEN 2 + BufLen(value.key) + 12 ELSE 12 IN
                 /\ FromBigEndian(Drop(ser_call.produced, at), 2) =
                       BufLen(index.document_id)
                 /\ Drop(ser_call.produced, at + 2) = index.document_id

\* After a KeyEntry with a key of exactly 65535 bytes was accepted, an
\* Interior with a key of 65536 bytes is refused with KeyTooLarge.
C22_Witness ==
    /\ Len(records) = 1
    /\ records[1].type = "KeyEntry"
    /\ BufLen(records[1].value.key) = U16_MAX
    /\ ser_call.op = "serialize"
    /\ ser_call.type = "Interior"
    /\ BufLen(ser_call.value.key) = U16_MAX + 1
    /\ ser_call.error = "KeyTooLarge"

\* C24. However the index entries are spread over the leaves, the stats of
\* every leaf are the reduce of its entries, and rereduce over the stats of
\* the leaves, in any order, equals reduce over the whole list: node_count of
\* it is the number of entries. rereduce of the rereduces of a first and a
\* second part of the stats equals rereduce of all of them.
C24_ReducerCorrect ==
    LET n == Len(leaf_stats)
        Orders == {order \in [1..n -> 1..n] :
                      \A i, j \in 1..n : order[i] = order[j] => i = j}
    IN
    /\ \A g \in 1..Len(leaves) : leaf_stats[g] = BySequenceStats_reduce(leaves[g])
    /\ node_stats = BySequenceStats_reduce(entries)
    /\ BySequenceStats_node_count(node_stats) = Len(entries)
    /\ \A order \in Orders :
          BySequenceStats_rereduce([i \in 1..n |-> leaf_stats[order[i]]]) =
             BySequenceStats_reduce(entries)
    /\ \A k \in 0..Len(leaf_stats) :
          BySequenceStats_rereduce(
              <<BySequenceStats_rereduce(SubSeq(leaf_stats, 1, k)),
                BySequenceStats_rereduce(SubSeq(leaf_stats, k + 1, Len(leaf_stats)))>>) =
             BySequenceStats_rereduce(leaf_stats)

\* Three entries lie in two leaves of different sizes.
C24_Witness ==
    /\ Len(entries) = 3
    /\ Len(leaves) = 2
    /\ Len(leaves[1]) = 2
    /\ leaves[1][1] # leaves[1][2]

\* C30. A call of replace_with_decoded(file, position, value) leaves the cache
\* as it is when it holds no entry for (file, position); when it holds one,
\* that entry becomes Decoded(value), every other entry stays what it is, and
\* the entries keep their places in the recency order: none is added, evicted
\* or moved.
C30_ReplaceWithDecodedFrame ==
    [][call'.op = "replace_with_decoded" =>
          IF LruCache_find(cache, call'.key) = 0
          THEN cache' = cache
          ELSE /\ Len(cache') = Len(cache)
               /\ \A i \in 1..Len(cache) :
                     /\ cache'[i].key = cache[i].key
                     /\ cache'[i].entry =
                           IF i = LruCache_find(cache, call'.key)
                           THEN CacheEntry_Decoded(call'.buffer, call'.key)
                           ELSE cache[i].entry]_vars

\* replace_with_decoded was called for the least recently used entry of a
\* full cache, which is now decoded and still the least recently used.
C30_Witness ==
    /\ call.op = "replace_with_decoded"
    /\ Len(cache) = Capacity
    /\ cache[1].key = call.key
    /\ cache[1].entry = CacheEntry_Decoded(call.buffer, call.key)
    /\ cache[Len(cache)].entry.kind = "Buffer"

\* C23. Roots::delete_tree(name), when it returns Ok, has removed the file of
\* the tree and its cached state, and has returned true if and only if the
\* file of the tree existed.
C23_DeleteTreeReturn ==
    (fs_call.op = "delete_tree" /\ fs_call.result # "Io") =>
        /\ file_manager.disk[fs_call.path] = NoFile
        /\ \A name \in state_names : tree_path(name) # fs_call.path
        /\ fs_call.result = "true" <=> fs_call.existed

C26_ReadReturnsIo ==
    (fs_call.op = "get" /\ ~fs_call.existed) => fs_call.result = "Io"

\* C27. In a commit of several trees the states are published in the order
\* in which the trees were passed to Roots::transaction: the states still to
\* be published are always the last trees of that list, in its order.
C27_DeclaredOrder ==
    \A p \in Clients :
       (pc[p] = "publish" /\ Len(taken[p]) >= 2) =>
          results[p] = SubSeq(taken[p], Len(taken[p]) - Len(results[p]) + 1,
                              Len(taken[p]))

C29_CommitTreesReturns ==
    /\ \A p \in Clients :
          pc[p] \in {"scale", "cas", "wait"} ~> pc[p] \notin {"scale", "cas", "wait"}
    /\ [](\A p \in Clients :
            (pc[p] = "push" /\ Len(taken[p]) >= 2) =>
               /\ Len(results[p]) = Len(taken[p])
               /\ Range(results[p]) = Range(taken[p])
               /\ Range(results[p]) = transaction[p].tree_names)

\* commit_trees has returned the three states of a caller, in another order
\* than the trees were sent, while another caller waits for its results.
C29_Witness ==
    \E p, q \in Clients :
       /\ p # q
       /\ pc[p] = "push"
       /\ Len(taken[p]) = 3
       /\ Len(results[p]) = 3
       /\ results[p] # taken[p]
       /\ pc[q] = "wait"

\* C32. A successful Interior::serialize_to leaves the child pointer
\* OnDisk(p), and the record written embeds that p. When the child was loaded
\* and dirty, or loaded and never stored, its node has been written as a new
\* chunk, p is the position of that chunk, and the entry goes on with its
\* dirty flag cleared; an OnDisk child and a loaded clean child that was
\* stored before write no chunk, and p is the position they had.
C32_SerializedPointers ==
    [][(Len(records') = Len(records) + 1 /\ ser_call'.type = "Interior") =>
         LET before == ser_call'.value.position
             after == ser_call'.after.position
             written == Interior_deserialize_from(ser_call'.produced)
             rewritten == before.kind = "Loaded"
                          /\ (before.entry.dirty \/ before.previous_location = <<>>)
         IN /\ after.kind = "OnDisk"
            /\ written.ok /\ written.value.position = after
            /\ IF rewritten
               THEN /\ paged_writer' = Append(paged_writer, before.entry.node)
                    /\ after.position = Len(paged_writer')
                    /\ ser_call'.entry = <<[before.entry EXCEPT !.dirty = FALSE]>>
               ELSE /\ paged_writer' = paged_writer
                    /\ ser_call'.entry = <<>>
                    /\ after.position = IF before.kind = "OnDisk"
                                        THEN before.position
                                        ELSE before.previous_location[1]]_vars

\* An Interior with a loaded clean child that was stored before has been
\* serialized after one whose dirty child was written as a new chunk.
C32_Witness ==
    /\ Len(records) = 2
    /\ records[1].type = "Interior"
    /\ records[1].value.position.kind = "Loaded"
    /\ records[1].value.position.entry.dirty
    /\ Len(paged_writer) = Len(StoredNodes) + 1
    /\ ser_call.op = "serialize"
    /\ ser_call.ok
    /\ ser_call.type = "Interior"
    /\ ser_call.value.position.kind = "Loaded"
    /\ ~ser_call.value.position.entry.dirty
    /\ ser_call.value.position.previous_location # <<>>
    /\ ser_call.after.position = OnDisk(ser_call.value.position.previous_location[1])

\* C38. An Interior::serialize_to that fails leaves the entry as it was: the
\* pointer is the one it was before the call.
C38_FailureLeavesEntry ==
    (ser_call.op = "serialize" /\ ser_call.type = "Interior" /\ ~ser_call.ok) =>
        ser_call.after = ser_call.value

\* C31. Pointer::map_loaded_entry leaves the pointer as it is and, unless the
\* read fails, calls the callback once, on the child: the entry of a Loaded
\* pointer, the node of the cache entry that was hit. When it has
\* deserialized the child with a cache at hand and the cache holds an entry
\* for the position, that entry is the decoded child; when the cache held
\* the decoded child already, nothing is deserialized.
C31_MapLoadedEntryFrame ==
    call.op = "map_loaded_entry" =>
        LET entry == ChunkCache_get(cache, call.key.file_path, call.key.position)
            on_disk == call.pointer.kind = "OnDisk"
        IN /\ call.after = call.pointer
           /\ call.result # DataIntegrity => call.callbacks = 1
           /\ ~on_disk =>
                 /\ call.result.bytes = call.pointer.entry.node
                 /\ ~call.deserialized
           /\ (on_disk /\ call.with_cache /\ call.hit # NoEntry) =>
                 call.result.bytes = call.hit.bytes
           /\ (on_disk /\ call.with_cache /\ call.deserialized /\ entry # NoEntry) =>
                 /\ entry.kind = "Decoded"
                 /\ entry.bytes = call.result.bytes
           /\ (on_disk /\ call.with_cache /\ call.hit.kind = "Decoded") =>
                 ~call.deserialized

\* A second map_loaded_entry at a position finds the decoded child in the
\* cache and calls the callback without deserializing.
C31_Witness ==
    /\ call.op = "map_loaded_entry"
    /\ call.pointer.kind = "OnDisk"
    /\ call.with_cache
    /\ call.hit.kind = "Decoded"
    /\ call.callbacks = 1
    /\ ~call.deserialized
    /\ call.result.bytes # <<>>

\* C33. Interior::copy_data_to, when it returns Ok: with include_nodes it
\* returns true, has written the node as one new chunk, and the pointer is
\* OnDisk at the position of that chunk; without include_nodes it returns
\* what the copy_data_to of the node returned, has written no chunk, and the
\* pointer is OnDisk at the position the node had on disk, or still the
\* loaded node when it had none.
C33_CopyDataTo ==
    (call.op = "copy_data_to" /\ call.ok) =>
        LET node == IF call.pointer.kind = "OnDisk" THEN call.result.bytes
                    ELSE call.pointer.entry.node
            previous == IF call.pointer.kind = "OnDisk" THEN <<call.pointer.position>>
                        ELSE call.pointer.previous_location
        IN IF call.include_nodes
           THEN /\ call.any_data_copied
                /\ paged_writer = Append(call.paged, node)
                /\ call.after = OnDisk(Len(paged_writer))
           ELSE /\ call.any_data_copied = call.copied
                /\ paged_writer = call.paged
                /\ call.after = IF previous # <<>> THEN OnDisk(previous[1])
                                ELSE call.pointer

\* copy_data_to without include_nodes has read a child from disk whose own
\* copy_data_to copied data: true is returned and the pointer is OnDisk where
\* it was, after a copy_data_to with include_nodes has written a node.
C33_Witness ==
    /\ call.op = "copy_data_to"
    /\ call.ok
    /\ ~call.include_nodes
    /\ call.pointer.kind = "OnDisk"
    /\ call.after = call.pointer
    /\ call.any_data_copied
    /\ Len(paged_writer) > Len(StoredNodes)

\* C34. While a commit is between its log push and the publish of tree X, no
\* other transaction holds the reservation of X.
C34_ExclusiveUntilPublish ==
    \A p \in Clients :
        pc[p] = "publish" =>
            \A t \in Range(results[p]) :
                \A q \in Clients \ {p} :
                    ~ /\ transaction[q] # NoHandle
                      /\ t \in transaction[q].tree_names

\* C35. Every ThreadCommit that waits in the queue of the pool or is being
\* flushed by a worker belongs to a transaction that still holds the
\* reservation of its tree: once a commit has returned and released its
\* trees, no flush of it is left.
C35_NoLeftoverFlush ==
    \A i \in 1..(Len(queue) + Len(workers)) :
        LET job == IF i <= Len(queue) THEN queue[i] ELSE workers[i - Len(queue)]
        IN job # NoJob => reserved[job.tree] = job.id

\* C36. While a transaction holds the reservation of tree name, no step
\* removes the file of the tree or its state in Data.tree_states.
C36_DeleteExcluded ==
    [][\A name \in TreeNames :
          reserved[name] # 0 =>
              /\ file_manager.disk[tree_path(name)] # NoFile =>
                     file_manager'.disk[tree_path(name)] # NoFile
              /\ name \in state_names => name \in state_names']_vars

\* C37. A read of a chunk of a tree's file returns the chunk that file holds
\* at the position, also after the tree was deleted and created again: the
\* chunk cache returns no entry made for the file that was deleted. And after
\* a delete_tree that did not fail, Data.tree_states holds no state for the
\* name: the next handle starts from an empty state.
C37_NoStaleChunks ==
    /\ [][(call' # call /\ call'.op = "load" /\ call'.result # DataIntegrity) =>
             call'.result.bytes = chunks[call'.key].written]_vars
    /\ [](\A name \in TreeNames :
             (/\ fs_call.op = "delete_tree"
              /\ fs_call.path = tree_path(name)
              /\ fs_call.result # "Io") => name \notin state_names)

====
